---- MODULE Spec2Model ----
(***************************************************************************)
(* The rules engine of the dungeon crawler (src/src/main.rs,               *)
(* src/src/object.rs, src/src/gui.rs): dungeon generation, the turn loop   *)
(* of play_game, combat, the monster Ai and the inventory.                 *)
(*                                                                         *)
(* Conventions.                                                            *)
(*  - Option<T> is a sequence: <<>> is None, <<v>> is Some(v).             *)
(*  - The entity store `objects` and the inventory are sequences; store    *)
(*    index 0 of the code is index 1 here (PLAYER == 1).                   *)
(*  - game.log holds the entries appended by the latest step: the log is   *)
(*    append-only and read by the renderer alone, so older entries are     *)
(*    dropped to keep the state finite.                                    *)
(*  - The field-of-view map (tcod) is an external oracle: every            *)
(*    is_in_fov query is an input of the step that makes it.               *)
(*  - uid, deaths and evals are bookkeeping fields of an entity that no    *)
(*    operation reads: the identity of the entity, the number of on_death  *)
(*    callbacks run on it, the number of Ai evaluations since it was last  *)
(*    confused.                                                            *)
(*  - game.rooms and game.accepted are bookkeeping fields that no          *)
(*    operation reads: the local vector `rooms` of make_map as it was when *)
(*    the current level was made, and for each of its entries whether the  *)
(*    candidate passed the overlap test.                                   *)
(***************************************************************************)
EXTENDS Integers, Sequences, FiniteSets, TLC

\* ------------------------------------------------------------------------
\* constants.rs (the file is not part of src/): values of the game rules;
\* PLAYER is store index 0 there (asserted by make_map), index 1 here
\* ------------------------------------------------------------------------
PLAYER == 1
HEAL_AMOUNT == 40
LIGHTNING_DAMAGE == 40
LIGHTNING_RANGE == 5
CONFUSE_RANGE == 8
CONFUSE_NUM_TURNS == 3
FIREBALL_RADIUS == 3
FIREBALL_DAMAGE == 25
LEVEL_UP_BASE == 200
LEVEL_UP_FACTOR == 150

\* ------------------------------------------------------------------------
\* Bounds of the model: the size of the map and of the rooms, the number of
\* candidate rooms, the number of turn-loop iterations followed.
\* ------------------------------------------------------------------------
MAP_WIDTH == 6
MAP_HEIGHT == 3
ROOM_MIN_SIZE == 2
ROOM_MAX_SIZE == 2
MAX_ROOMS == 2
MaxTurns == 5
MaxDepth == 2

\* ------------------------------------------------------------------------
\* Option, small helpers
\* ------------------------------------------------------------------------
None == <<>>
Some(v) == <<v>>
IsSome(o) == o # <<>>
IsNone(o) == o = <<>>

Min(a, b) == IF a < b THEN a ELSE b
Max(a, b) == IF a > b THEN a ELSE b

\* Vec::swap_remove: the last element takes the place of the removed one.
swap_remove(s, i) ==
  IF i = Len(s) THEN SubSeq(s, 1, Len(s) - 1)
  ELSE [k \in 1..(Len(s) - 1) |-> IF k = i THEN s[Len(s)] ELSE s[k]]

\* Vec::remove: the elements after the removed one shift down.
remove(s, i) == [k \in 1..(Len(s) - 1) |-> IF k < i THEN s[k] ELSE s[k + 1]]

\* fault variant of truncate: nothing is cut
truncate_nothing(s, n) == s

\* Vec::truncate
truncate(s, n) == SubSeq(s, 1, Min(n, Len(s)))

\* ------------------------------------------------------------------------
\* Data model (object.rs)
\* ------------------------------------------------------------------------
Tile_empty == [blocked |-> FALSE, block_sight |-> FALSE, explored |-> FALSE]
Tile_wall == [blocked |-> TRUE, block_sight |-> TRUE, explored |-> FALSE]

Ai_Basic == [kind |-> "Basic"]
Ai_Confused(previous_ai, num_turns) ==
  [kind |-> "Confused", previous_ai |-> previous_ai, num_turns |-> num_turns]

Object_new(x, y, char, name, color, blocks) ==
  [x |-> x, y |-> y, char |-> char, color |-> color, name |-> name,
   blocks |-> blocks, alive |-> FALSE, always_visible |-> FALSE, level |-> 1,
   fighter |-> None, ai |-> None, item |-> None, equipment |-> None,
   uid |-> <<0, 0>>, deaths |-> 0, evals |-> -1]

pos(o) == <<o.x, o.y>>
set_pos(o, x, y) == [o EXCEPT !.x = x, !.y = y]

\* squared Euclidean distance: distance_to and distance take its square root
dist2(o, x, y) == (x - o.x) * (x - o.x) + (y - o.y) * (y - o.y)

\* MessageLog::add
add(game, message) == [game EXCEPT !.log = Append(@, message)]

\* ------------------------------------------------------------------------
\* Depth-scaled tables (main.rs)
\* ------------------------------------------------------------------------
Transition(level, value) == [level |-> level, value |-> value]

\* fault variant of from_dungeon_level: the table is searched from its front
from_dungeon_level_front(table, level) ==
  LET hits == {i \in 1..Len(table) : level >= table[i].level}
  IN IF hits = {} THEN 0
     ELSE table[CHOOSE i \in hits : \A j \in hits : i <= j].value

\* table.iter().rev().find(|t| level >= t.level).map_or(0, |t| t.value)
from_dungeon_level(table, level) ==
  LET hits == {i \in 1..Len(table) : level >= table[i].level}
  IN IF hits = {} THEN 0
     ELSE table[CHOOSE i \in hits : \A j \in hits : j <= i].value

\* ------------------------------------------------------------------------
\* Rect and carving (main.rs)
\* ------------------------------------------------------------------------
Rect_new(x, y, w, h) == [x1 |-> x, y1 |-> y, x2 |-> x + w, y2 |-> y + h]

center(r) == <<(r.x1 + r.x2) \div 2, (r.y1 + r.y2) \div 2>>

\* fault variant of intersects_with: boxes that only share an edge pass
intersects_with_strict(a, b) ==
  /\ a.x1 < b.x2
  /\ a.x2 > b.x1
  /\ a.y1 < b.y2
  /\ a.y2 > b.y1

intersects_with(a, b) ==
  /\ a.x1 <= b.x2
  /\ a.x2 >= b.x1
  /\ a.y1 <= b.y2
  /\ a.y2 >= b.y1

Tiles == (0..(MAP_WIDTH - 1)) \X (0..(MAP_HEIGHT - 1))

\* fault variant of create_room: the edges of the rectangle are carved too
create_room_edges(room, map) ==
  [t \in DOMAIN map |->
     IF /\ t[1] \in room.x1..room.x2
        /\ t[2] \in room.y1..room.y2
     THEN Tile_empty ELSE map[t]]

create_room(room, map) ==
  [t \in DOMAIN map |->
     IF /\ t[1] \in (room.x1 + 1)..(room.x2 - 1)
        /\ t[2] \in (room.y1 + 1)..(room.y2 - 1)
     THEN Tile_empty ELSE map[t]]

create_h_tunnel(x1, x2, y, map) ==
  [t \in DOMAIN map |->
     IF t[2] = y /\ t[1] \in Min(x1, x2)..Max(x1, x2) THEN Tile_empty ELSE map[t]]

create_v_tunnel(y1, y2, x, map) ==
  [t \in DOMAIN map |->
     IF t[1] = x /\ t[2] \in Min(y1, y2)..Max(y1, y2) THEN Tile_empty ELSE map[t]]

is_blocked(x, y, map, objects) ==
  \/ map[<<x, y>>].blocked
  \/ \E i \in 1..Len(objects) : objects[i].blocks /\ pos(objects[i]) = <<x, y>>

\* ------------------------------------------------------------------------
\* place_objects (main.rs): every outcome of the random draws
\* ------------------------------------------------------------------------
max_monsters(level) ==
  from_dungeon_level(<<Transition(1, 2), Transition(4, 3), Transition(6, 5)>>, level)

troll_chance(level) ==
  from_dungeon_level(<<Transition(3, 15), Transition(5, 30), Transition(7, 60)>>, level)

\* WeightedChoice never draws an entry of weight 0
monster_chances(level) ==
  {"orc"} \cup (IF troll_chance(level) > 0 THEN {"troll"} ELSE {})

max_items(level) ==
  from_dungeon_level(<<Transition(1, 1), Transition(4, 2)>>, level)

item_chances(level) ==
  {"Heal"}
  \cup (IF from_dungeon_level(<<Transition(4, 25)>>, level) > 0 THEN {"Lightning"} ELSE {})
  \cup (IF from_dungeon_level(<<Transition(6, 25)>>, level) > 0 THEN {"Fireball"} ELSE {})
  \cup (IF from_dungeon_level(<<Transition(2, 10)>>, level) > 0 THEN {"Confuse"} ELSE {})
  \cup (IF from_dungeon_level(<<Transition(4, 5)>>, level) > 0 THEN {"Sword"} ELSE {})
  \cup (IF from_dungeon_level(<<Transition(8, 15)>>, level) > 0 THEN {"Shield"} ELSE {})

Fighter(base_max_hp, hp, base_defense, base_power, xp, on_death) ==
  [base_max_hp |-> base_max_hp, hp |-> hp, base_defense |-> base_defense,
   base_power |-> base_power, xp |-> xp, on_death |-> on_death]

Equipment(equipped, slot, max_hp_bonus, power_bonus, defense_bonus) ==
  [equipped |-> equipped, slot |-> slot, max_hp_bonus |-> max_hp_bonus,
   power_bonus |-> power_bonus, defense_bonus |-> defense_bonus]

new_monster(kind, x, y, uid) ==
  LET m == IF kind = "orc"
           THEN [Object_new(x, y, "o", "orc", "DESATURATED_GREEN", TRUE) EXCEPT
                   !.fighter = Some(Fighter(20, 20, 0, 4, 35, "Monster")),
                   !.ai = Some(Ai_Basic)]
           ELSE [Object_new(x, y, "T", "troll", "DARKER_GREEN", TRUE) EXCEPT
                   !.fighter = Some(Fighter(30, 30, 2, 8, 100, "Monster")),
                   !.ai = Some(Ai_Basic)]
  IN [m EXCEPT !.alive = TRUE, !.uid = uid]

new_item(kind, x, y, uid) ==
  LET i ==
    CASE kind = "Heal" ->
           [Object_new(x, y, "!", "healing potion", "VIOLET", FALSE) EXCEPT
              !.item = Some("Heal")]
      [] kind = "Lightning" ->
           [Object_new(x, y, "#", "scroll of lightning bolt", "LIGHT_YELLOW", FALSE) EXCEPT
              !.item = Some("Lightning")]
      [] kind = "Fireball" ->
           [Object_new(x, y, "#", "scroll of fireball", "LIGHT_YELLOW", FALSE) EXCEPT
              !.item = Some("Fireball")]
      [] kind = "Confuse" ->
           [Object_new(x, y, "#", "scroll of confusion", "LIGHT_YELLOW", FALSE) EXCEPT
              !.item = Some("Confuse")]
      [] kind = "Sword" ->
           [Object_new(x, y, "/", "sword", "SKY", FALSE) EXCEPT
              !.item = Some("Sword"),
              !.equipment = Some(Equipment(FALSE, "RightHand", 0, 3, 0))]
      [] kind = "Shield" ->
           [Object_new(x, y, "[", "shield", "DARKER_ORANGE", FALSE) EXCEPT
              !.item = Some("Shield"),
              !.equipment = Some(Equipment(FALSE, "LeftHand", 0, 0, 1))]
  IN [i EXCEPT !.always_visible = TRUE, !.uid = uid]

\* gen_range(room.x1 + 1, room.x2) x gen_range(room.y1 + 1, room.y2)
Interior(room) == ((room.x1 + 1)..(room.x2 - 1)) \X ((room.y1 + 1)..(room.y2 - 1))

\* the `for _ in 0..num_monsters` loop, n iterations left
RECURSIVE place_monsters(_, _, _, _, _)
place_monsters(n, room, map, objects, level) ==
  IF n = 0 THEN {objects}
  ELSE UNION {
         IF is_blocked(p[1], p[2], map, objects)
         THEN place_monsters(n - 1, room, map, objects, level)
         ELSE UNION { place_monsters(n - 1, room, map,
                        Append(objects,
                               new_monster(kind, p[1], p[2], <<level, Len(objects) + 1>>)),
                        level)
                      : kind \in monster_chances(level) }
         : p \in Interior(room) }

\* the `for _ in 0..num_items` loop, n iterations left
RECURSIVE place_items(_, _, _, _, _)
place_items(n, room, map, objects, level) ==
  IF n = 0 THEN {objects}
  ELSE UNION {
         IF is_blocked(p[1], p[2], map, objects)
         THEN place_items(n - 1, room, map, objects, level)
         ELSE UNION { place_items(n - 1, room, map,
                        Append(objects,
                               new_item(kind, p[1], p[2], <<level, Len(objects) + 1>>)),
                        level)
                      : kind \in item_chances(level) }
         : p \in Interior(room) }

\* fault variant of place_objects: one monster more than the table allows
place_objects_one_more(room, map, objects, level) ==
  LET with_monsters ==
        UNION { place_monsters(num_monsters, room, map, objects, level)
                : num_monsters \in 0..(max_monsters(level) + 1) }
  IN UNION { UNION { place_items(num_items, room, map, objs, level)
                     : num_items \in 0..max_items(level) }
             : objs \in with_monsters }

\* the set of entity stores place_objects can leave
place_objects(room, map, objects, level) ==
  LET with_monsters ==
        UNION { place_monsters(num_monsters, room, map, objects, level)
                : num_monsters \in 0..max_monsters(level) }
  IN UNION { UNION { place_items(num_items, room, map, objs, level)
                     : num_items \in 0..max_items(level) }
             : objs \in with_monsters }

\* ------------------------------------------------------------------------
\* make_map (main.rs): every outcome of the random draws
\* ------------------------------------------------------------------------
\* the candidate rooms one iteration can draw
Candidates ==
  { Rect_new(x, y, w, h) :
      <<x, y, w, h>> \in
        { q \in (0..MAP_WIDTH) \X (0..MAP_HEIGHT)
                  \X (ROOM_MIN_SIZE..ROOM_MAX_SIZE) \X (ROOM_MIN_SIZE..ROOM_MAX_SIZE) :
            /\ q[1] < MAP_WIDTH - q[3]
            /\ q[2] < MAP_HEIGHT - q[4] } }

\* one iteration of `for _ in 0..MAX_ROOMS` from the generation state g
room_step(g, level) ==
  UNION {
    LET failed == \E i \in 1..Len(g.rooms) : intersects_with(new_room, g.rooms[i])
    IN IF failed
       THEN { [g EXCEPT !.rooms = Append(@, new_room),
                        !.accepted = Append(@, FALSE)] }
       ELSE LET map1 == create_room(new_room, g.map)
                c == center(new_room)
            IN UNION {
                 IF g.rooms = <<>>
                 THEN { [map |-> map1,
                         objects |-> [objs EXCEPT ![PLAYER] = set_pos(@, c[1], c[2])],
                         rooms |-> Append(g.rooms, new_room),
                         accepted |-> Append(g.accepted, TRUE)] }
                 ELSE LET prev == center(g.rooms[Len(g.rooms)])
                      IN { [map |-> create_v_tunnel(prev[2], c[2], c[1],
                                      create_h_tunnel(prev[1], c[1], prev[2], map1)),
                            objects |-> objs,
                            rooms |-> Append(g.rooms, new_room),
                            accepted |-> Append(g.accepted, TRUE)],
                           [map |-> create_h_tunnel(prev[1], c[1], c[2],
                                      create_v_tunnel(prev[2], c[2], prev[1], map1)),
                            objects |-> objs,
                            rooms |-> Append(g.rooms, new_room),
                            accepted |-> Append(g.accepted, TRUE)] }
                 : objs \in place_objects(new_room, map1, g.objects, level) }
    : new_room \in Candidates }

RECURSIVE room_loop(_, _, _)
room_loop(n, gs, level) ==
  IF n = 0 THEN gs
  ELSE room_loop(n - 1, UNION { room_step(g, level) : g \in gs }, level)

new_stairs(x, y, uid) ==
  [Object_new(x, y, "<", "stairs", "WHITE", FALSE) EXCEPT
     !.always_visible = TRUE, !.uid = uid]

\* the set of [map, objects] make_map can return for this store and depth,
\* each with the local `rooms` and the outcome of every candidate
make_map(objects, level) ==
  LET g0 == [map |-> [t \in Tiles |-> Tile_wall],
             objects |-> truncate(objects, 1),
             rooms |-> <<>>,
             accepted |-> <<>>]
  IN { LET last == center(g.rooms[Len(g.rooms)])
       IN [map |-> g.map,
           objects |-> Append(g.objects,
                              new_stairs(last[1], last[2], <<level, Len(g.objects) + 1>>)),
           rooms |-> g.rooms,
           accepted |-> g.accepted]
       : g \in room_loop(MAX_ROOMS, {g0}, level) }

\* ------------------------------------------------------------------------
\* new_game (main.rs)
\* ------------------------------------------------------------------------
new_player ==
  [Object_new(0, 0, "@", "player", "WHITE", TRUE) EXCEPT
     !.alive = TRUE,
     !.fighter = Some(Fighter(100, 100, 1, 2, 0, "Player"))]

new_dagger ==
  [Object_new(0, 0, "-", "dagger", "SKY", FALSE) EXCEPT
     !.item = Some("Sword"),
     !.equipment = Some(Equipment(TRUE, "LeftHand", 0, 2, 0)),
     !.uid = <<0, 1>>]

\* the set of [objects, game] new_game can return
new_game ==
  { [objects |-> m.objects,
     game |-> [map |-> m.map,
               log |-> <<<<"Welcome stranger!">>>>,
               inventory |-> <<new_dagger>>,
               dungeon_level |-> 1,
               rooms |-> m.rooms,
               accepted |-> m.accepted]]
    : m \in make_map(<<new_player>>, 1) }

\* ------------------------------------------------------------------------
\* Effective stats (object.rs)
\* ------------------------------------------------------------------------
\* fault variant of get_all_equipped: the owner is not looked at
get_all_equipped_any(self, game) ==
  LET idx == {i \in 1..Len(game.inventory) :
                /\ IsSome(game.inventory[i].equipment)
                /\ game.inventory[i].equipment[1].equipped}
  IN [i \in idx |-> game.inventory[i].equipment[1]]

\* the Equipment of every equipped inventory item, for the player only
get_all_equipped(self, game) ==
  IF self.name = "player"
  THEN LET idx == {i \in 1..Len(game.inventory) :
                     /\ IsSome(game.inventory[i].equipment)
                     /\ game.inventory[i].equipment[1].equipped}
       IN [i \in idx |-> game.inventory[i].equipment[1]]
  ELSE <<>>

\* .iter().fold(0, |sum, e| sum + f(e)) over a function with a finite domain
RECURSIVE fold_sum(_, _, _)
fold_sum(es, field, todo) ==
  IF todo = {} THEN 0
  ELSE LET i == CHOOSE i \in todo : TRUE
       IN es[i][field] + fold_sum(es, field, todo \ {i})

bonus(self, game, field) ==
  LET es == get_all_equipped(self, game)
  IN fold_sum(es, field, DOMAIN es)

max_hp(self, game) ==
  (IF IsSome(self.fighter) THEN self.fighter[1].base_max_hp ELSE 0)
  + bonus(self, game, "max_hp_bonus")

power(self, game) ==
  (IF IsSome(self.fighter) THEN self.fighter[1].base_power ELSE 0)
  + bonus(self, game, "power_bonus")

defense(self, game) ==
  (IF IsSome(self.fighter) THEN self.fighter[1].base_defense ELSE 0)
  + bonus(self, game, "defense_bonus")

\* ------------------------------------------------------------------------
\* Death callbacks, damage, attack, heal (object.rs)
\* ------------------------------------------------------------------------
player_death(player, game) ==
  [object |-> [player EXCEPT !.char = "%", !.color = "DARK_RED"],
   game |-> add(game, <<"You died!">>)]

\* fault variant of monster_death: the Ai is left in place
monster_death_keeps_ai(monster, game) ==
  [object |-> [monster EXCEPT !.char = "%", !.color = "DARK_RED",
                              !.blocks = FALSE, !.fighter = None,
                              !.name = "remains of " \o monster.name],
   game |-> add(game, <<"is dead! You gain", monster.name, monster.fighter[1].xp>>)]

monster_death(monster, game) ==
  [object |-> [monster EXCEPT !.char = "%", !.color = "DARK_RED",
                              !.blocks = FALSE, !.fighter = None, !.ai = None,
                              !.name = "remains of " \o monster.name],
   game |-> add(game, <<"is dead! You gain", monster.name, monster.fighter[1].xp>>)]

\* DeathCallback::callback; deaths counts the calls made on the entity
callback(on_death, object, game) ==
  LET counted == [object EXCEPT !.deaths = @ + 1]
  IN IF on_death = "Player" THEN player_death(counted, game)
     ELSE monster_death(counted, game)

\* returns the entity, the game and Option<xp>
take_damage(self, damage, game) ==
  LET hit == IF IsSome(self.fighter) /\ damage > 0
             THEN [self EXCEPT !.fighter[1].hp = @ - damage]
             ELSE self
  IN IF IsSome(hit.fighter) /\ hit.fighter[1].hp <= 0
     THEN LET fighter == hit.fighter[1]
              d == callback(fighter.on_death, [hit EXCEPT !.alive = FALSE], game)
          IN [object |-> d.object, game |-> d.game, xp |-> Some(fighter.xp)]
     ELSE [object |-> hit, game |-> game, xp |-> None]

\* fault variant of attack: the target's defense is not subtracted
attack_no_defense(self, target, game) ==
  LET damage == power(self, game)
  IN IF damage > 0
     THEN LET r == take_damage(target, damage,
                     add(game, <<"attacks", self.name, target.name, damage>>))
          IN [self |-> IF IsSome(r.xp)
                       THEN [self EXCEPT !.fighter[1].xp = @ + r.xp[1]]
                       ELSE self,
              target |-> r.object,
              game |-> r.game]
     ELSE [self |-> self, target |-> target,
           game |-> add(game, <<"attacks but it has no effect", self.name, target.name>>)]

attack(self, target, game) ==
  LET damage == power(self, game) - defense(target, game)
  IN IF damage > 0
     THEN LET r == take_damage(target, damage,
                     add(game, <<"attacks", self.name, target.name, damage>>))
          IN [self |-> IF IsSome(r.xp)
                       THEN [self EXCEPT !.fighter[1].xp = @ + r.xp[1]]
                       ELSE self,
              target |-> r.object,
              game |-> r.game]
     ELSE [self |-> self, target |-> target,
           game |-> add(game, <<"attacks but it has no effect", self.name, target.name>>)]

\* `if let Some(mut fighter) = self.fighter` binds a copy of the Copy struct
\* Fighter: the sum is written to the copy, which is dropped, and self.fighter
\* keeps its hp.
heal(self, amount, game) ==
  LET limit == max_hp(self, game)
      fighter == IF IsSome(self.fighter)
                 THEN Some([self.fighter[1] EXCEPT !.hp = Min(@ + amount, limit)])
                 ELSE None
  IN self

\* ------------------------------------------------------------------------
\* Equipment and inventory (object.rs, gui.rs)
\* ------------------------------------------------------------------------
INVENTORY_CAP == 26

equip(self, game) ==
  IF IsNone(self.item)
  THEN [object |-> self, game |-> add(game, <<"Can't equip: not an Item", self.name>>)]
  ELSE IF IsSome(self.equipment)
  THEN IF ~self.equipment[1].equipped
       THEN [object |-> [self EXCEPT !.equipment[1].equipped = TRUE],
             game |-> add(game, <<"Equipped", self.name, self.equipment[1].slot>>)]
       ELSE [object |-> self, game |-> game]
  ELSE [object |-> self, game |-> add(game, <<"Can't equip: not an Equipment", self.name>>)]

dequip(self, game) ==
  IF IsNone(self.item)
  THEN [object |-> self, game |-> add(game, <<"Can't dequip: not an Item", self.name>>)]
  ELSE IF IsSome(self.equipment)
  THEN IF self.equipment[1].equipped
       THEN [object |-> [self EXCEPT !.equipment[1].equipped = FALSE],
             game |-> add(game, <<"Dequipped", self.name, self.equipment[1].slot>>)]
       ELSE [object |-> self, game |-> game]
  ELSE [object |-> self, game |-> add(game, <<"Can't dequip: not an Equipment", self.name>>)]

\* the first inventory index holding an equipped item of the slot
get_equipped_in_slot(slot, inventory) ==
  LET hits == {i \in 1..Len(inventory) :
                 /\ IsSome(inventory[i].equipment)
                 /\ inventory[i].equipment[1].equipped
                 /\ inventory[i].equipment[1].slot = slot}
  IN IF hits = {} THEN None
     ELSE Some(CHOOSE i \in hits : \A j \in hits : i <= j)

\* game.inventory[index].equip(&mut game.log) / .dequip(&mut game.log)
equip_at(index, game) ==
  LET e == equip(game.inventory[index], game)
  IN [e.game EXCEPT !.inventory[index] = e.object]

dequip_at(index, game) ==
  LET e == dequip(game.inventory[index], game)
  IN [e.game EXCEPT !.inventory[index] = e.object]

\* fault variant of pick_item_up: the cap is tested with >
pick_item_up_over(object_id, objs, game) ==
  IF Len(game.inventory) > INVENTORY_CAP
  THEN [objects |-> objs,
        game |-> add(game, <<"Your inventory is full", objs[object_id].name>>)]
  ELSE LET item == objs[object_id]
           g1 == add(game, <<"You picked up", item.name>>)
           index == Len(g1.inventory) + 1
           slot == IF IsSome(item.equipment) THEN Some(item.equipment[1].slot) ELSE None
           g2 == [g1 EXCEPT !.inventory = Append(@, item)]
       IN [objects |-> swap_remove(objs, object_id),
           game |-> IF IsSome(slot) /\ IsNone(get_equipped_in_slot(slot[1], g2.inventory))
                    THEN equip_at(index, g2)
                    ELSE g2]

pick_item_up(object_id, objs, game) ==
  IF Len(game.inventory) >= INVENTORY_CAP
  THEN [objects |-> objs,
        game |-> add(game, <<"Your inventory is full", objs[object_id].name>>)]
  ELSE LET item == objs[object_id]
           g1 == add(game, <<"You picked up", item.name>>)
           index == Len(g1.inventory) + 1
           slot == IF IsSome(item.equipment) THEN Some(item.equipment[1].slot) ELSE None
           g2 == [g1 EXCEPT !.inventory = Append(@, item)]
       IN [objects |-> swap_remove(objs, object_id),
           game |-> IF IsSome(slot) /\ IsNone(get_equipped_in_slot(slot[1], g2.inventory))
                    THEN equip_at(index, g2)
                    ELSE g2]

\* fault variant of drop_item: the item is inserted at the front of the store
drop_item_front(inventory_id, game, objs) ==
  LET item == set_pos(game.inventory[inventory_id], objs[PLAYER].x, objs[PLAYER].y)
      g1 == [game EXCEPT !.inventory = remove(@, inventory_id)]
  IN [objects |-> <<item>> \o objs,
      game |-> add(g1, <<"You dropped", item.name>>)]

\* fault variant of drop_item: the item is left in the inventory as well
drop_item_copy(inventory_id, game, objs) ==
  LET item == set_pos(game.inventory[inventory_id], objs[PLAYER].x, objs[PLAYER].y)
  IN [objects |-> Append(objs, item),
      game |-> add(game, <<"You dropped", item.name>>)]

drop_item(inventory_id, game, objs) ==
  LET item == set_pos(game.inventory[inventory_id], objs[PLAYER].x, objs[PLAYER].y)
      g1 == [game EXCEPT !.inventory = remove(@, inventory_id)]
  IN [objects |-> Append(objs, item),
      game |-> add(g1, <<"You dropped", item.name>>)]

\* ------------------------------------------------------------------------
\* Item effects (object.rs).  An effect returns [result, objects, game].
\* ------------------------------------------------------------------------
cast_heal(inventory_id, objs, game, input) ==
  LET player == objs[PLAYER]
  IN IF IsSome(player.fighter)
     THEN IF player.fighter[1].hp = max_hp(player, game)
          THEN [result |-> "Cancelled", objects |-> objs,
                game |-> add(game, <<"You are already at full health.">>)]
          ELSE LET g1 == add(game, <<"Your wounds start to feel better!">>)
               IN [result |-> "UsedUp",
                   objects |-> [objs EXCEPT ![PLAYER] = heal(player, HEAL_AMOUNT, g1)],
                   game |-> g1]
     ELSE [result |-> "Cancelled", objects |-> objs, game |-> game]

\* the fold of closest_monster over the ids from `id` on; best is
\* [enemy, dist2], dist2 the square of closest_dist
RECURSIVE closest_from(_, _, _, _)
closest_from(id, best, objs, fov) ==
  IF id > Len(objs) THEN best.enemy
  ELSE LET object == objs[id]
           d2 == dist2(objs[PLAYER], object.x, object.y)
       IN IF /\ id # PLAYER
             /\ IsSome(object.fighter)
             /\ IsSome(object.ai)
             /\ pos(object) \in fov
             /\ d2 < best.dist2
          THEN closest_from(id + 1, [enemy |-> Some(id), dist2 |-> d2], objs, fov)
          ELSE closest_from(id + 1, best, objs, fov)

\* closest_dist starts at max_range + 1; fov is the set of tiles in view
closest_monster(max_range, objs, fov) ==
  closest_from(1, [enemy |-> None, dist2 |-> (max_range + 1) * (max_range + 1)], objs, fov)

\* fault variant of cast_lightning: the xp of the monster struck dead is dropped
cast_lightning_no_xp(inventory_id, objs, game, input) ==
  LET monster_id == closest_monster(LIGHTNING_RANGE, objs, input.fov)
  IN IF IsSome(monster_id)
     THEN LET id == monster_id[1]
              r == take_damage(objs[id], LIGHTNING_DAMAGE,
                     add(game, <<"A lightning bolt strikes", objs[id].name, LIGHTNING_DAMAGE>>))
              struck == [objs EXCEPT ![id] = r.object]
          IN [result |-> "UsedUp",
              objects |-> struck,
              game |-> r.game]
     ELSE [result |-> "Cancelled", objects |-> objs,
           game |-> add(game, <<"No enemy is close enough to strike.">>)]

cast_lightning(inventory_id, objs, game, input) ==
  LET monster_id == closest_monster(LIGHTNING_RANGE, objs, input.fov)
  IN IF IsSome(monster_id)
     THEN LET id == monster_id[1]
              r == take_damage(objs[id], LIGHTNING_DAMAGE,
                     add(game, <<"A lightning bolt strikes", objs[id].name, LIGHTNING_DAMAGE>>))
              struck == [objs EXCEPT ![id] = r.object]
          IN [result |-> "UsedUp",
              objects |-> IF IsSome(r.xp)
                          THEN [struck EXCEPT ![PLAYER].fighter[1].xp = @ + r.xp[1]]
                          ELSE struck,
              game |-> r.game]
     ELSE [result |-> "Cancelled", objects |-> objs,
           game |-> add(game, <<"No enemy is close enough to strike.">>)]

\* target_tile: the tile the user clicks, in view and within max_range, or
\* None on a right-click or Escape.  max_range is Option<range>.
target_tile_ok(objs, max_range, tile) ==
  /\ tile \in Tiles
  /\ IsNone(max_range) \/ dist2(objs[PLAYER], tile[1], tile[2]) <= max_range[1] * max_range[1]

\* fault variant of target_monster: the player is not skipped
target_monster_any(objs, max_range, click) ==
  IF IsNone(click) THEN None
  ELSE LET hits == {id \in 1..Len(objs) :
                      /\ pos(objs[id]) = click[1]
                      /\ IsSome(objs[id].fighter)}
       IN IF hits = {} THEN None
          ELSE Some(CHOOSE id \in hits : \A j \in hits : id <= j)

\* fault variant of target_monster: the Fighter is not asked for
target_monster_no_fighter(objs, max_range, click) ==
  IF IsNone(click) THEN None
  ELSE LET hits == {id \in 1..Len(objs) : pos(objs[id]) = click[1] /\ id # PLAYER}
       IN IF hits = {} THEN None
          ELSE Some(CHOOSE id \in hits : \A j \in hits : id <= j)

\* target_monster: the first non-player entity with a Fighter on the tile
target_monster(objs, max_range, click) ==
  IF IsNone(click) THEN None
  ELSE LET hits == {id \in 1..Len(objs) :
                      /\ pos(objs[id]) = click[1]
                      /\ IsSome(objs[id].fighter)
                      /\ id # PLAYER}
       IN IF hits = {} THEN None
          ELSE Some(CHOOSE id \in hits : \A j \in hits : id <= j)

cast_confuse(inventory_id, objs, game, input) ==
  LET g1 == add(game, <<"Left-click an enemy to confuse it, or right-click to cancel.">>)
      monster_id == target_monster(objs, Some(CONFUSE_RANGE), input.click)
  IN IF IsSome(monster_id)
     THEN LET id == monster_id[1]
              old_ai == IF IsSome(objs[id].ai) THEN objs[id].ai[1] ELSE Ai_Basic
          IN [result |-> "UsedUp",
              objects |-> [objs EXCEPT ![id].ai = Some(Ai_Confused(old_ai, CONFUSE_NUM_TURNS)),
                                       ![id].evals = 0],
              game |-> add(g1, <<"The eyes look vacant", objs[id].name>>)]
     ELSE [result |-> "Cancelled", objects |-> objs,
           game |-> add(g1, <<"No enemy is close enough to strike.">>)]

\* the `for (id, obj) in objects.iter_mut().enumerate()` loop of cast_fireball
\* from `id` on; st is [objects, game, xp_to_gain]
RECURSIVE burn_from(_, _, _, _)
burn_from(id, st, x, y) ==
  IF id > Len(st.objects) THEN st
  ELSE LET obj == st.objects[id]
       IN IF dist2(obj, x, y) <= FIREBALL_RADIUS * FIREBALL_RADIUS /\ IsSome(obj.fighter)
          THEN LET r == take_damage(obj, FIREBALL_DAMAGE,
                          add(st.game, <<"gets burned", obj.name, FIREBALL_DAMAGE>>))
               IN burn_from(id + 1,
                            [objects |-> [st.objects EXCEPT ![id] = r.object],
                             game |-> r.game,
                             xp_to_gain |-> IF IsSome(r.xp) /\ id # PLAYER
                                            THEN st.xp_to_gain + r.xp[1]
                                            ELSE st.xp_to_gain],
                            x, y)
          ELSE burn_from(id + 1, st, x, y)

\* fault variant of cast_fireball: the loop starts after the player
cast_fireball_spares(inventory_id, objs, game, input) ==
  LET g1 == add(game, <<"Left-click a target tile for the fireball, or right-click to cancel.">>)
  IN IF IsNone(input.click)
     THEN [result |-> "Cancelled", objects |-> objs, game |-> g1]
     ELSE LET st == burn_from(PLAYER + 1,
                      [objects |-> objs,
                       game |-> add(g1, <<"The fireball explodes", FIREBALL_RADIUS>>),
                       xp_to_gain |-> 0],
                      input.click[1][1], input.click[1][2])
          IN [result |-> "UsedUp",
              objects |-> [st.objects EXCEPT ![PLAYER].fighter[1].xp = @ + st.xp_to_gain],
              game |-> st.game]

cast_fireball(inventory_id, objs, game, input) ==
  LET g1 == add(game, <<"Left-click a target tile for the fireball, or right-click to cancel.">>)
  IN IF IsNone(input.click)
     THEN [result |-> "Cancelled", objects |-> objs, game |-> g1]
     ELSE LET st == burn_from(1,
                      [objects |-> objs,
                       game |-> add(g1, <<"The fireball explodes", FIREBALL_RADIUS>>),
                       xp_to_gain |-> 0],
                      input.click[1][1], input.click[1][2])
          IN [result |-> "UsedUp",
              objects |-> [st.objects EXCEPT ![PLAYER].fighter[1].xp = @ + st.xp_to_gain],
              game |-> st.game]

toggle_equipment(inventory_id, objs, game, input) ==
  IF IsNone(game.inventory[inventory_id].equipment)
  THEN [result |-> "Cancelled", objects |-> objs, game |-> game]
  ELSE LET equipment == game.inventory[inventory_id].equipment[1]
           old_equipment == get_equipped_in_slot(equipment.slot, game.inventory)
       IN [result |-> "UsedAndKept",
           objects |-> objs,
           game |-> IF equipment.equipped
                    THEN dequip_at(inventory_id, game)
                    ELSE IF IsSome(old_equipment)
                         THEN dequip_at(old_equipment[1], game)
                         ELSE equip_at(inventory_id, game)]

on_use(item, inventory_id, objs, game, input) ==
  CASE item = "Heal" -> cast_heal(inventory_id, objs, game, input)
    [] item = "Lightning" -> cast_lightning(inventory_id, objs, game, input)
    [] item = "Confuse" -> cast_confuse(inventory_id, objs, game, input)
    [] item = "Fireball" -> cast_fireball(inventory_id, objs, game, input)
    [] item = "Sword" -> toggle_equipment(inventory_id, objs, game, input)
    [] item = "Shield" -> toggle_equipment(inventory_id, objs, game, input)

use_item(inventory_id, objs, game, input) ==
  IF IsSome(game.inventory[inventory_id].item)
  THEN LET r == on_use(game.inventory[inventory_id].item[1], inventory_id, objs, game, input)
       IN [objects |-> r.objects,
           game |-> CASE r.result = "UsedUp" ->
                           [r.game EXCEPT !.inventory = remove(@, inventory_id)]
                      [] r.result = "Cancelled" -> add(r.game, <<"Cancelled">>)
                      [] r.result = "UsedAndKept" -> r.game]
  ELSE [objects |-> objs,
        game |-> add(game, <<"cannot be used", game.inventory[inventory_id].name>>)]

\* the inputs one use of the inventory item can read: the fov answers of
\* closest_monster, the final click of the targeting loop
use_inputs(inventory_id, objs, game) ==
  LET item == game.inventory[inventory_id].item
      kind == IF IsSome(item) THEN item[1] ELSE "none"
      no_input == [click |-> None, fov |-> {}]
      monsters == {pos(objs[id]) : id \in {i \in 1..Len(objs) : IsSome(objs[i].ai)}}
  IN CASE kind = "Lightning" ->
            { [click |-> None, fov |-> f] : f \in SUBSET monsters }
       [] kind = "Confuse" ->
            { no_input } \cup
            { [click |-> Some(t), fov |-> {}] :
                t \in { u \in Tiles : /\ target_tile_ok(objs, Some(CONFUSE_RANGE), u)
                                      /\ IsSome(target_monster(objs, Some(CONFUSE_RANGE), Some(u))) } }
       [] kind = "Fireball" ->
            { no_input } \cup
            { [click |-> Some(t), fov |-> {}] :
                t \in { u \in Tiles : target_tile_ok(objs, None, u) } }
       [] OTHER -> { no_input }

\* ------------------------------------------------------------------------
\* Movement and the monster Ai (main.rs)
\* ------------------------------------------------------------------------
move_by(id, dx, dy, map, objs) ==
  LET x == objs[id].x
      y == objs[id].y
  IN IF ~is_blocked(x + dx, y + dy, map, objs)
     THEN [objs EXCEPT ![id] = set_pos(@, x + dx, y + dy)]
     ELSE objs

\* (d as f32 / distance).round() for distance = sqrt(dx^2 + dy^2) > 0:
\* |d| / distance >= 1/2 exactly when 4 d^2 >= dx^2 + dy^2
round_unit(d, dx, dy) ==
  IF 4 * d * d >= dx * dx + dy * dy
  THEN (IF d > 0 THEN 1 ELSE IF d < 0 THEN -1 ELSE 0)
  ELSE 0

move_towards(id, target_x, target_y, map, objs) ==
  LET dx == target_x - objs[id].x
      dy == target_y - objs[id].y
  IN move_by(id, round_unit(dx, dx, dy), round_unit(dy, dx, dy), map, objs)

\* fault variant of ai_basic: the field of view is not asked
ai_basic_unseen(monster_id, game, objs, in_fov) ==
  IF dist2(objs[monster_id], objs[PLAYER].x, objs[PLAYER].y) >= 4
  THEN [ai |-> Ai_Basic,
        objects |-> move_towards(monster_id, objs[PLAYER].x, objs[PLAYER].y,
                                 game.map, objs),
        game |-> game]
  ELSE IF IsSome(objs[PLAYER].fighter) /\ objs[PLAYER].fighter[1].hp > 0
  THEN LET a == attack(objs[monster_id], objs[PLAYER], game)
       IN [ai |-> Ai_Basic,
           objects |-> [objs EXCEPT ![monster_id] = a.self, ![PLAYER] = a.target],
           game |-> a.game]
  ELSE [ai |-> Ai_Basic, objects |-> objs, game |-> game]

\* fault variant of ai_basic: the player is attacked whatever its hp
ai_basic_no_hp_check(monster_id, game, objs, in_fov) ==
  IF in_fov
  THEN IF dist2(objs[monster_id], objs[PLAYER].x, objs[PLAYER].y) >= 4
       THEN [ai |-> Ai_Basic,
             objects |-> move_towards(monster_id, objs[PLAYER].x, objs[PLAYER].y,
                                      game.map, objs),
             game |-> game]
       ELSE LET a == attack(objs[monster_id], objs[PLAYER], game)
            IN [ai |-> Ai_Basic,
                objects |-> [objs EXCEPT ![monster_id] = a.self, ![PLAYER] = a.target],
                game |-> a.game]
  ELSE [ai |-> Ai_Basic, objects |-> objs, game |-> game]

\* mut_two(monster_id, PLAYER, objects); monster.attack(player, game)
ai_basic(monster_id, game, objs, in_fov) ==
  IF in_fov
  THEN IF dist2(objs[monster_id], objs[PLAYER].x, objs[PLAYER].y) >= 4
       THEN [ai |-> Ai_Basic,
             objects |-> move_towards(monster_id, objs[PLAYER].x, objs[PLAYER].y,
                                      game.map, objs),
             game |-> game]
       ELSE IF IsSome(objs[PLAYER].fighter) /\ objs[PLAYER].fighter[1].hp > 0
       THEN LET a == attack(objs[monster_id], objs[PLAYER], game)
            IN [ai |-> Ai_Basic,
                objects |-> [objs EXCEPT ![monster_id] = a.self, ![PLAYER] = a.target],
                game |-> a.game]
       ELSE [ai |-> Ai_Basic, objects |-> objs, game |-> game]
  ELSE [ai |-> Ai_Basic, objects |-> objs, game |-> game]

\* fault variant of ai_confused: the step is taken without move_by's test
ai_confused_through(monster_id, game, objs, previous_ai, num_turns, dx, dy) ==
  IF num_turns >= 0
  THEN [ai |-> Ai_Confused(previous_ai, num_turns - 1),
        objects |-> [objs EXCEPT ![monster_id] = set_pos(@, @.x + dx, @.y + dy)],
        game |-> game]
  ELSE [ai |-> previous_ai,
        objects |-> objs,
        game |-> add(game, <<"is no longer confused!", objs[monster_id].name>>)]

\* fault variant of ai_confused: the counter is compared with > 0
ai_confused_strict(monster_id, game, objs, previous_ai, num_turns, dx, dy) ==
  IF num_turns > 0
  THEN [ai |-> Ai_Confused(previous_ai, num_turns - 1),
        objects |-> move_by(monster_id, dx, dy, game.map, objs),
        game |-> game]
  ELSE [ai |-> previous_ai,
        objects |-> objs,
        game |-> add(game, <<"is no longer confused!", objs[monster_id].name>>)]

ai_confused(monster_id, game, objs, previous_ai, num_turns, dx, dy) ==
  IF num_turns >= 0
  THEN [ai |-> Ai_Confused(previous_ai, num_turns - 1),
        objects |-> move_by(monster_id, dx, dy, game.map, objs),
        game |-> game]
  ELSE [ai |-> previous_ai,
        objects |-> objs,
        game |-> add(game, <<"is no longer confused!", objs[monster_id].name>>)]

\* input: [in_fov, dx, dy], the oracle's answer and the two gen_range(-1, 2)
ai_take_turn(monster_id, game, objs, input) ==
  IF IsSome(objs[monster_id].ai)
  THEN LET ai == objs[monster_id].ai[1]
           taken == [objs EXCEPT ![monster_id].ai = None,
                                 ![monster_id].evals = IF @ >= 0 THEN @ + 1 ELSE @]
           r == IF ai.kind = "Basic"
                THEN ai_basic(monster_id, game, taken, input.in_fov)
                ELSE ai_confused(monster_id, game, taken, ai.previous_ai, ai.num_turns,
                                 input.dx, input.dy)
       IN [objects |-> [r.objects EXCEPT ![monster_id].ai = Some(r.ai)],
           game |-> r.game]
  ELSE [objects |-> objs, game |-> game]

\* the inputs the evaluation of this monster can read
ai_inputs(monster_id, objs) ==
  IF IsSome(objs[monster_id].ai) /\ objs[monster_id].ai[1].kind = "Confused"
  THEN { [in_fov |-> FALSE, dx |-> dx, dy |-> dy] : dx \in -1..1, dy \in -1..1 }
  ELSE { [in_fov |-> v, dx |-> 0, dy |-> 0] : v \in BOOLEAN }

\* ------------------------------------------------------------------------
\* The player's actions (main.rs)
\* ------------------------------------------------------------------------
\* fault variant of target_id: the position of the entity is not compared
target_id_anywhere(x, y, objs) ==
  LET hits == {i \in 1..Len(objs) : IsSome(objs[i].fighter)}
  IN IF hits # {} THEN Some(CHOOSE i \in hits : \A j \in hits : i <= j) ELSE None

\* objects.iter().position(|object| object.fighter.is_some() && object.pos() == (x, y))
target_id(x, y, objs) ==
  LET hits == {i \in 1..Len(objs) : IsSome(objs[i].fighter) /\ pos(objs[i]) = <<x, y>>}
  IN IF hits # {} THEN Some(CHOOSE i \in hits : \A j \in hits : i <= j) ELSE None

\* mut_two(PLAYER, target_id, objects); player.attack(target, game)
player_move_or_attack(dx, dy, game, objs) ==
  LET x == objs[PLAYER].x + dx
      y == objs[PLAYER].y + dy
      target == target_id(x, y, objs)
  IN IF IsSome(target)
     THEN LET a == attack(objs[PLAYER], objs[target[1]], game)
          IN [objects |-> [objs EXCEPT ![PLAYER] = a.self, ![target[1]] = a.target],
              game |-> a.game]
     ELSE [objects |-> move_by(PLAYER, dx, dy, game.map, objs), game |-> game]

\* the set of [objects, game] next_level can leave
next_level(objs, game) ==
  LET g1 == add(game, <<"You take a moment to rest, and recover your strength.">>)
      heal_hp == max_hp(objs[PLAYER], g1) \div 2
      healed == [objs EXCEPT ![PLAYER] = heal(@, heal_hp, g1)]
      g2 == add(g1, <<"After a rare moment of peace, you descend deeper...">>)
      g3 == [g2 EXCEPT !.dungeon_level = @ + 1]
  IN { [objects |-> m.objects,
        game |-> [g3 EXCEPT !.map = m.map, !.rooms = m.rooms, !.accepted = m.accepted]]
       : m \in make_map(healed, g3.dungeon_level) }

\* fault variant of level_up: xp is set to 0
level_up_zero_xp(objs, game, choice) ==
  LET player == objs[PLAYER]
      level_up_xp == LEVEL_UP_BASE + player.level * LEVEL_UP_FACTOR
      xp == IF IsSome(player.fighter) THEN player.fighter[1].xp ELSE 0
  IN IF xp >= level_up_xp
     THEN LET raised == [player EXCEPT !.level = @ + 1]
              g1 == add(game, <<"Your battle skills grow stronger!", raised.level>>)
              paid == [raised EXCEPT !.fighter[1].xp = 0]
          IN [objects |-> [objs EXCEPT ![PLAYER] =
                CASE choice = 0 -> [paid EXCEPT !.fighter[1].base_max_hp = @ + 20,
                                                !.fighter[1].hp = @ + 20]
                  [] choice = 1 -> [paid EXCEPT !.fighter[1].base_power = @ + 1]
                  [] choice = 2 -> [paid EXCEPT !.fighter[1].base_defense = @ + 1]],
              game |-> g1]
     ELSE [objects |-> objs, game |-> game]

\* fault variant of level_up: Constitution raises hp and not base_max_hp
level_up_hp_only(objs, game, choice) ==
  LET player == objs[PLAYER]
      level_up_xp == LEVEL_UP_BASE + player.level * LEVEL_UP_FACTOR
      xp == IF IsSome(player.fighter) THEN player.fighter[1].xp ELSE 0
  IN IF xp >= level_up_xp
     THEN LET raised == [player EXCEPT !.level = @ + 1]
              g1 == add(game, <<"Your battle skills grow stronger!", raised.level>>)
              paid == [raised EXCEPT !.fighter[1].xp = @ - level_up_xp]
          IN [objects |-> [objs EXCEPT ![PLAYER] =
                CASE choice = 0 -> [paid EXCEPT !.fighter[1].hp = @ + 20]
                  [] choice = 1 -> [paid EXCEPT !.fighter[1].base_power = @ + 1]
                  [] choice = 2 -> [paid EXCEPT !.fighter[1].base_defense = @ + 1]],
              game |-> g1]
     ELSE [objects |-> objs, game |-> game]

\* choice: the index the level-up menu returns (it is shown until one is chosen)
level_up(objs, game, choice) ==
  LET player == objs[PLAYER]
      level_up_xp == LEVEL_UP_BASE + player.level * LEVEL_UP_FACTOR
      xp == IF IsSome(player.fighter) THEN player.fighter[1].xp ELSE 0
  IN IF xp >= level_up_xp
     THEN LET raised == [player EXCEPT !.level = @ + 1]
              g1 == add(game, <<"Your battle skills grow stronger!", raised.level>>)
              paid == [raised EXCEPT !.fighter[1].xp = @ - level_up_xp]
          IN [objects |-> [objs EXCEPT ![PLAYER] =
                CASE choice = 0 -> [paid EXCEPT !.fighter[1].base_max_hp = @ + 20,
                                                !.fighter[1].hp = @ + 20]
                  [] choice = 1 -> [paid EXCEPT !.fighter[1].base_power = @ + 1]
                  [] choice = 2 -> [paid EXCEPT !.fighter[1].base_defense = @ + 1]],
              game |-> g1]
     ELSE [objects |-> objs, game |-> game]

\* ------------------------------------------------------------------------
\* save_game and load_game (main.rs): serde_json over the derived
\* Serialize and Deserialize of Object, Game and their parts (object.rs).
\* A JSON object is the sequence of its <<key, value>> members in field
\* order, a JSON array a sequence; a value that is null or not, and an enum
\* variant that is a unit or a struct, carry a tag t that says which.  The
\* bookkeeping fields travel with the entity and the game they describe.
\* ------------------------------------------------------------------------
\* the value of the member `key` of a JSON object
member(j, key) == j[CHOOSE k \in 1..Len(j) : j[k][1] = key][2]

json_null == [t |-> "null"]

\* a unit variant (Slot, Item, DeathCallback) is its name
ser_unit(variant) == variant

de_unit(j) == j

ser_equipment(e) ==
  << <<"slot", ser_unit(e.slot)>>, <<"equipped", e.equipped>>,
     <<"power_bonus", e.power_bonus>>, <<"defense_bonus", e.defense_bonus>>,
     <<"max_hp_bonus", e.max_hp_bonus>> >>

de_equipment(j) ==
  Equipment(member(j, "equipped"), de_unit(member(j, "slot")), member(j, "max_hp_bonus"),
            member(j, "power_bonus"), member(j, "defense_bonus"))

ser_fighter(f) ==
  << <<"hp", f.hp>>, <<"base_defense", f.base_defense>>, <<"base_power", f.base_power>>,
     <<"base_max_hp", f.base_max_hp>>, <<"xp", f.xp>>, <<"on_death", ser_unit(f.on_death)>> >>

de_fighter(j) ==
  Fighter(member(j, "base_max_hp"), member(j, "hp"), member(j, "base_defense"),
          member(j, "base_power"), member(j, "xp"), de_unit(member(j, "on_death")))

RECURSIVE ser_ai(_)
ser_ai(ai) ==
  IF ai.kind = "Basic"
  THEN [t |-> "unit", v |-> "Basic"]
  ELSE [t |-> "struct", v |-> "Confused",
        fields |-> << <<"previous_ai", ser_ai(ai.previous_ai)>>,
                      <<"num_turns", ai.num_turns>> >>]

RECURSIVE de_ai(_)
de_ai(j) ==
  IF j.t = "unit"
  THEN Ai_Basic
  ELSE Ai_Confused(de_ai(member(j.fields, "previous_ai")), member(j.fields, "num_turns"))

\* the Serialize and Deserialize of the type T of an Option<T> field
ser_value(field, v) ==
  CASE field = "fighter" -> ser_fighter(v)
    [] field = "ai" -> ser_ai(v)
    [] field = "item" -> ser_unit(v)
    [] field = "equipment" -> ser_equipment(v)

de_value(field, j) ==
  CASE field = "fighter" -> de_fighter(j)
    [] field = "ai" -> de_ai(j)
    [] field = "item" -> de_unit(j)
    [] field = "equipment" -> de_equipment(j)

\* Option<T>: null, or the value
ser_option(o, field) ==
  IF IsSome(o) THEN [t |-> "value", v |-> ser_value(field, o[1])] ELSE json_null

de_option(j, field) == IF j.t = "null" THEN None ELSE Some(de_value(field, j.v))

ser_object(o) ==
  << <<"x", o.x>>, <<"y", o.y>>, <<"name", o.name>>, <<"blocks", o.blocks>>,
     <<"alive", o.alive>>, <<"always_visible", o.always_visible>>, <<"char", o.char>>,
     <<"color", o.color>>, <<"level", o.level>>,
     <<"fighter", ser_option(o.fighter, "fighter")>>,
     <<"ai", ser_option(o.ai, "ai")>>,
     <<"item", ser_option(o.item, "item")>>,
     <<"equipment", ser_option(o.equipment, "equipment")>>,
     <<"uid", o.uid>>, <<"deaths", o.deaths>>, <<"evals", o.evals>> >>

\* fault variant of de_object: the Ai is not read back
de_object_no_ai(j) ==
  [x |-> member(j, "x"), y |-> member(j, "y"), char |-> member(j, "char"),
   color |-> member(j, "color"), name |-> member(j, "name"),
   blocks |-> member(j, "blocks"), alive |-> member(j, "alive"),
   always_visible |-> member(j, "always_visible"), level |-> member(j, "level"),
   fighter |-> de_option(member(j, "fighter"), "fighter"),
   ai |-> None,
   item |-> de_option(member(j, "item"), "item"),
   equipment |-> de_option(member(j, "equipment"), "equipment"),
   uid |-> member(j, "uid"), deaths |-> member(j, "deaths"), evals |-> member(j, "evals")]

de_object(j) ==
  [x |-> member(j, "x"), y |-> member(j, "y"), char |-> member(j, "char"),
   color |-> member(j, "color"), name |-> member(j, "name"),
   blocks |-> member(j, "blocks"), alive |-> member(j, "alive"),
   always_visible |-> member(j, "always_visible"), level |-> member(j, "level"),
   fighter |-> de_option(member(j, "fighter"), "fighter"),
   ai |-> de_option(member(j, "ai"), "ai"),
   item |-> de_option(member(j, "item"), "item"),
   equipment |-> de_option(member(j, "equipment"), "equipment"),
   uid |-> member(j, "uid"), deaths |-> member(j, "deaths"), evals |-> member(j, "evals")]

ser_tile(tile) ==
  << <<"blocked", tile.blocked>>, <<"block_sight", tile.block_sight>>,
     <<"explored", tile.explored>> >>

de_tile(j) ==
  [blocked |-> member(j, "blocked"), block_sight |-> member(j, "block_sight"),
   explored |-> member(j, "explored")]

\* Map is Vec<Vec<Tile>>, indexed map[x][y]
ser_map(map) ==
  [x \in 1..MAP_WIDTH |-> [y \in 1..MAP_HEIGHT |-> ser_tile(map[<<x - 1, y - 1>>])]]

de_map(j) ==
  [t \in { <<x - 1, y - 1>> : <<x, y>> \in { q \in (1..Len(j)) \X (1..MAP_HEIGHT) :
                                                 q[2] <= Len(j[q[1]]) } }
     |-> de_tile(j[t[1] + 1][t[2] + 1])]

\* Messages is Vec<(String, Color)>: an entry is an array
ser_log(log) == [k \in 1..Len(log) |-> <<log[k]>>]

de_log(j) == [k \in 1..Len(j) |-> j[k][1]]

ser_game(game) ==
  << <<"map", ser_map(game.map)>>,
     <<"log", ser_log(game.log)>>,
     <<"inventory", [k \in 1..Len(game.inventory) |-> ser_object(game.inventory[k])]>>,
     <<"dungeon_level", game.dungeon_level>>,
     <<"rooms", game.rooms>>, <<"accepted", game.accepted>> >>

de_game(j) ==
  [map |-> de_map(member(j, "map")),
   log |-> de_log(member(j, "log")),
   inventory |-> [k \in 1..Len(member(j, "inventory")) |-> de_object(member(j, "inventory")[k])],
   dungeon_level |-> member(j, "dungeon_level"),
   rooms |-> member(j, "rooms"),
   accepted |-> member(j, "accepted")]

\* serde_json::to_string(&(objects, game)): what save_game writes
save_game(objects, game) ==
  << [k \in 1..Len(objects) |-> ser_object(objects[k])], ser_game(game) >>

\* serde_json::from_str::<(Vec<Object>, Game)>: what load_game returns
load_game(save_data) ==
  [objects |-> [k \in 1..Len(save_data[1]) |-> de_object(save_data[1][k])],
   game |-> de_game(save_data[2])]

\* ------------------------------------------------------------------------
\* The session: play_game (main.rs)
\* ------------------------------------------------------------------------
VARIABLES
  objects,        \* the entity store, the player first
  game,           \* struct Game: map, log, inventory, dungeon_level (and rooms, accepted)
  phase,          \* the position in play_game's loop body
  player_action,  \* what handle_keys returned last
  ai_id,          \* `id` of the `for id in 0..objects.len()` loop
  turns,          \* the loop iterations started
  savegame,       \* Option: the file save_game wrote
  evaluated,      \* the ids ai_take_turn was called with in this iteration
  lookup          \* a table handed to from_dungeon_level and the value returned

vars == <<objects, game, phase, player_action, ai_id, turns, savegame, evaluated, lookup>>

\* the tables of the session are the literals of place_objects
no_lookup == [table |-> <<>>, value |-> None]

\* the log of a step starts empty (see the conventions above)
cleared == [game EXCEPT !.log = <<>>]

\* ------------------------------------------------------------------------
\* load_game (main.rs): the sessions play_game can resume.  Each family is
\* what save_game writes after the play named with it, so that the cases a
\* few iterations cannot reach from new_game start within reach.
\* ------------------------------------------------------------------------
\* the tiles the player can stand on when a level is left
centres == { center(r) : r \in Candidates }

\* the player of new_game brought to `level` by descents alone, from tile p
arrive(p, level) ==
  { [objects |-> m.objects,
     game |-> [map |-> m.map, log |-> <<>>, inventory |-> <<new_dagger>>,
               dungeon_level |-> level, rooms |-> m.rooms, accepted |-> m.accepted]]
    : m \in make_map(<<set_pos(new_player, p[1], p[2])>>, level) }

on_player_tile(s, i) == pos(s.objects[i]) = pos(s.objects[PLAYER])

\* level 1, an orc spawned on the player's tile, the player has waited 32
\* rounds and the orc has hit 32 times for 3
saved_wounded ==
  { [s EXCEPT !.objects[PLAYER].fighter[1].hp = 100 - 32 * 3, !.game.log = <<>>]
    : s \in { t \in new_game :
                \E i \in 2..Len(t.objects) :
                  IsSome(t.objects[i].ai) /\ on_player_tile(t, i) } }

\* level 4 reached by descents alone, two swords and nothing else but the
\* stairs generated, both swords on the player's tile
saved_armoury ==
  UNION { { s \in arrive(p, 4) :
              /\ Len(s.objects) = 4
              /\ \A i \in 2..3 : s.objects[i].name = "sword" /\ on_player_tile(s, i) }
          : p \in centres }

\* level 2 reached by descents alone, a scroll of confusion on the player's
\* tile picked up, the monsters out of view
saved_confuse ==
  UNION { { LET r == pick_item_up(2, s.objects, s.game)
            IN [objects |-> r.objects, game |-> [r.game EXCEPT !.log = <<>>]]
            : s \in { t \in arrive(p, 2) :
                        /\ Len(t.objects) = 4
                        /\ t.objects[2].name = "scroll of confusion"
                        /\ on_player_tile(t, 2)
                        /\ IsSome(t.objects[3].ai) } }
          : p \in centres }

\* level 5, one troll away from the player and nothing else but the stairs
\* generated; on level 4 the player has picked up four scrolls of lightning
\* bolt, struck three trolls dead with three of them (100 xp each) and
\* descended
new_scroll == new_item("Lightning", 0, 0, <<4, 2>>)

saved_veteran ==
  UNION { { [s EXCEPT !.objects[PLAYER].fighter[1].xp = 300,
                      !.game.inventory = <<new_dagger, new_scroll>>]
            : s \in { t \in arrive(p, 5) :
                        /\ Len(t.objects) = 3
                        /\ t.objects[2].name = "troll"
                        /\ ~on_player_tile(t, 2) } }
          : p \in centres }

\* level 7, an orc on the player's tile, a second orc in the other room and
\* nothing else but the stairs generated; on level 6 the player has killed
\* an orc (35 xp), picked up a scroll of fireball and descended with 20 hp
\* left
saved_bomber ==
  UNION { { [s EXCEPT !.objects[PLAYER].fighter[1].hp = 20,
                      !.objects[PLAYER].fighter[1].xp = 35,
                      !.game.inventory = <<new_dagger, new_item("Fireball", 0, 0, <<6, 2>>)>>]
            : s \in { t \in arrive(p, 7) :
                        /\ Len(t.objects) = 4
                        /\ t.objects[2].name = "orc"
                        /\ on_player_tile(t, 2)
                        /\ t.objects[3].name = "orc" } }
          : p \in centres }

\* level 1, one orc and nothing else but the stairs generated; the player
\* has hit the orc four times for 4, was hit four times for 3, and both are
\* back where they started, the orc away from the player
saved_duel ==
  { [s EXCEPT !.objects[PLAYER].fighter[1].hp = 100 - 4 * 3,
              !.objects[2].fighter[1].hp = 20 - 4 * 4,
              !.game.log = <<>>]
    : s \in { t \in new_game :
                /\ Len(t.objects) = 3
                /\ t.objects[2].name = "orc"
                /\ ~on_player_tile(t, 2) } }

\* level 3, one orc away from the player and nothing else but the stairs
\* generated; on level 2 the player has picked up two scrolls of confusion
\* and descended
saved_twice ==
  UNION { { [s EXCEPT !.game.inventory = <<new_dagger,
                                           new_item("Confuse", 0, 0, <<2, 2>>),
                                           new_item("Confuse", 0, 0, <<2, 3>>)>>]
            : s \in { t \in arrive(p, 3) :
                        /\ Len(t.objects) = 3
                        /\ t.objects[2].name = "orc"
                        /\ ~on_player_tile(t, 2) } }
          : p \in centres }

saved_games ==
  saved_wounded \cup saved_armoury \cup saved_confuse \cup saved_veteran \cup saved_bomber
    \cup saved_duel \cup saved_twice

\* main_menu: new_game or load_game, then play_game
Init ==
  /\ \E s \in new_game \cup saved_games : objects = s.objects /\ game = s.game
  /\ phase = "level_up"
  /\ player_action = "None"
  /\ ai_id = 0
  /\ turns = 0
  /\ savegame = None
  /\ evaluated = <<>>
  /\ lookup = no_lookup

\* the lowest id above `after` whose entity has an Ai, 0 when there is none
next_ai(objs, after) ==
  LET ids == {i \in (after + 1)..Len(objs) : IsSome(objs[i].ai)}
  IN IF ids = {} THEN 0 ELSE CHOOSE i \in ids : \A j \in ids : i <= j

\* level_up(objects, game, tcod), first in the loop body
LevelUp ==
  /\ phase = "level_up"
  /\ turns < MaxTurns
  /\ \E choice \in 0..2 :
       LET r == level_up(objects, cleared, choice)
       IN objects' = r.objects /\ game' = r.game
  /\ phase' = "handle_keys"
  /\ turns' = turns + 1
  /\ evaluated' = <<>>
  /\ UNCHANGED <<player_action, ai_id, savegame, lookup>>

\* fault variant of after_keys: the Ai round follows DidntTakeTurn as well
after_keys_any(r, action) ==
  /\ objects' = r.objects
  /\ game' = r.game
  /\ player_action' = action
  /\ IF r.objects[PLAYER].alive /\ next_ai(r.objects, 0) # 0
     THEN phase' = "ai" /\ ai_id' = next_ai(r.objects, 0)
     ELSE phase' = "level_up" /\ ai_id' = 0
  /\ UNCHANGED <<turns, savegame, evaluated, lookup>>

\* fault variant of after_keys: the Ai round follows whatever the action
\* and whether the player is alive or not
after_keys_always(r, action) ==
  /\ objects' = r.objects
  /\ game' = r.game
  /\ player_action' = action
  /\ IF next_ai(r.objects, 0) # 0
     THEN phase' = "ai" /\ ai_id' = next_ai(r.objects, 0)
     ELSE phase' = "level_up" /\ ai_id' = 0
  /\ UNCHANGED <<turns, savegame, evaluated, lookup>>

\* what follows handle_keys: the Ai round when the player is alive and the
\* action is not DidntTakeTurn, else the next iteration
after_keys(r, action) ==
  /\ objects' = r.objects
  /\ game' = r.game
  /\ player_action' = action
  /\ IF r.objects[PLAYER].alive /\ action # "DidntTakeTurn" /\ next_ai(r.objects, 0) # 0
     THEN phase' = "ai" /\ ai_id' = next_ai(r.objects, 0)
     ELSE phase' = "level_up" /\ ai_id' = 0
  /\ UNCHANGED <<turns, savegame, evaluated, lookup>>

\* the eight movement keys
KeyMove ==
  /\ phase = "handle_keys"
  /\ objects[PLAYER].alive
  /\ \E dx \in -1..1, dy \in -1..1 :
       /\ <<dx, dy>> # <<0, 0>>
       /\ after_keys(player_move_or_attack(dx, dy, cleared, objects), "TookTurn")

\* space or NumPad5
KeyWait ==
  /\ phase = "handle_keys"
  /\ objects[PLAYER].alive
  /\ after_keys([objects |-> objects, game |-> cleared], "TookTurn")

\* 'g'
KeyPickUp ==
  /\ phase = "handle_keys"
  /\ objects[PLAYER].alive
  /\ LET hits == {i \in 1..Len(objects) :
                    pos(objects[i]) = pos(objects[PLAYER]) /\ IsSome(objects[i].item)}
     IN IF hits # {}
        THEN after_keys(pick_item_up(CHOOSE i \in hits : \A j \in hits : i <= j,
                                     objects, cleared), "TookTurn")
        ELSE after_keys([objects |-> objects, game |-> cleared], "TookTurn")

\* inventory_menu: Some(index) of an entry, or None (another key, or an
\* empty inventory)
inventory_menu(inventory) == {None} \cup {Some(i) : i \in 1..Len(inventory)}

\* 'i'
KeyUse ==
  /\ phase = "handle_keys"
  /\ objects[PLAYER].alive
  /\ \E inventory_index \in inventory_menu(game.inventory) :
       IF IsSome(inventory_index)
       THEN \E input \in use_inputs(inventory_index[1], objects, game) :
              after_keys(use_item(inventory_index[1], objects, cleared, input), "TookTurn")
       ELSE after_keys([objects |-> objects, game |-> cleared], "TookTurn")

\* 'd'
KeyDrop ==
  /\ phase = "handle_keys"
  /\ objects[PLAYER].alive
  /\ \E inventory_index \in inventory_menu(game.inventory) :
       IF IsSome(inventory_index)
       THEN after_keys(drop_item(inventory_index[1], cleared, objects), "DidntTakeTurn")
       ELSE after_keys([objects |-> objects, game |-> cleared], "DidntTakeTurn")

player_on_stairs(objs) ==
  \E i \in 1..Len(objs) : pos(objs[i]) = pos(objs[PLAYER]) /\ objs[i].name = "stairs"

\* the '<' arm of handle_keys: the set of [objects, game] it can leave
descend(objs, g) ==
  IF player_on_stairs(objs) THEN next_level(objs, g)
  ELSE { [objects |-> objs, game |-> g] }

\* '<'; a descent from level MaxDepth is not followed
KeyDescend ==
  /\ phase = "handle_keys"
  /\ objects[PLAYER].alive
  /\ player_on_stairs(objects) => game.dungeon_level < MaxDepth
  /\ \E r \in descend(objects, cleared) : after_keys(r, "DidntTakeTurn")

\* 'c', Alt+Enter, a key that is not bound, no key, and every key but
\* Escape once the player is dead
KeyOther ==
  /\ phase = "handle_keys"
  /\ after_keys([objects |-> objects, game |-> cleared], "DidntTakeTurn")

\* Escape: Exit, save_game, and the loop ends
KeyEscape ==
  /\ phase = "handle_keys"
  /\ phase' = "exit"
  /\ player_action' = "Exit"
  /\ game' = cleared
  /\ savegame' = Some(save_game(objects, cleared))
  /\ UNCHANGED <<objects, ai_id, turns, evaluated, lookup>>

\* one iteration of the Ai loop: ai_take_turn(id, ...)
AiTurn ==
  /\ phase = "ai"
  /\ \E input \in ai_inputs(ai_id, objects) :
       LET r == ai_take_turn(ai_id, cleared, objects, input)
       IN /\ objects' = r.objects
          /\ game' = r.game
          /\ IF next_ai(r.objects, ai_id) # 0
             THEN phase' = "ai" /\ ai_id' = next_ai(r.objects, ai_id)
             ELSE phase' = "level_up" /\ ai_id' = 0
  /\ evaluated' = Append(evaluated, ai_id)
  /\ UNCHANGED <<player_action, turns, savegame, lookup>>

Next ==
  \/ LevelUp
  \/ KeyMove
  \/ KeyWait
  \/ KeyPickUp
  \/ KeyUse
  \/ KeyDrop
  \/ KeyDescend
  \/ KeyOther
  \/ KeyEscape
  \/ AiTurn

Spec == Init /\ [][Next]_vars

\* ------------------------------------------------------------------------
\* The 'i' and 'g' arms of handle_keys on stores and inventories drawn from
\* bounded sets.  use_item, the item effects and pick_item_up read the
\* positions of the entities, the field of view and the inventory, never
\* the tiles, so the entities stand on any tiles of an open floor and the
\* player in its corner: the distances between them are those of a room
\* of the game.
\* ------------------------------------------------------------------------
ops_game(inventory, level) ==
  [map |-> [t \in Tiles |-> Tile_empty], log |-> <<>>, inventory |-> inventory,
   dungeon_level |-> level, rooms |-> <<>>, accepted |-> <<>>]

\* level 6: an orc, a troll and a healing potion on the floor, a scroll of
\* lightning bolt or of fireball in the inventory, the player unhurt or
\* down to 20 hp
ops_cast ==
  { [objects |-> <<[new_player EXCEPT !.fighter[1].hp = hp],
                   new_monster("orc", a[1], a[2], <<6, 2>>),
                   new_monster("troll", b[1], b[2], <<6, 3>>),
                   new_item("Heal", 1, 1, <<6, 4>>)>>,
     game |-> ops_game(<<new_dagger, new_item(kind, 0, 0, <<5, 2>>)>>, 6)]
    : <<a, b, hp, kind>> \in
        { q \in Tiles \X Tiles \X {100, 20} \X {"Lightning", "Fireball"} :
            /\ q[1] # q[2]
            /\ q[1] # <<0, 0>>
            /\ q[2] # <<0, 0>> } }

\* level 26: the dagger and a healing potion kept from each of n earlier
\* levels in the inventory, one or two entries below the cap or at it, and
\* an item on the player's tile
ops_pack ==
  { [objects |-> <<new_player, new_item(kind, 0, 0, <<26, 2>>)>>,
     game |-> ops_game(<<new_dagger>> \o [k \in 1..n |-> new_item("Heal", 0, 0, <<k, 2>>)],
                       26)]
    : <<n, kind>> \in ((INVENTORY_CAP - 3)..(INVENTORY_CAP - 1)) \X {"Heal", "Sword"} }

InitOps ==
  /\ \E s \in ops_cast \cup ops_pack : objects = s.objects /\ game = s.game
  /\ phase = "handle_keys"
  /\ player_action = "None"
  /\ ai_id = 0
  /\ turns = 1
  /\ savegame = None
  /\ evaluated = <<>>
  /\ lookup = no_lookup

NextOps ==
  \/ KeyUse
  \/ KeyPickUp

SpecOps == InitOps /\ [][NextOps]_vars

\* ------------------------------------------------------------------------
\* from_dungeon_level on tables drawn from bounded sets, at the level of
\* the game: place_objects hands it a table and game.dungeon_level.
\* ------------------------------------------------------------------------
MaxEntries == 3
MaxThreshold == 4
MaxValue == 2

\* the tables of at most n entries with their thresholds ascending
RECURSIVE tables(_)
tables(n) ==
  IF n = 0 THEN {<<>>}
  ELSE LET shorter == tables(n - 1)
       IN shorter \cup
          { Append(t, Transition(l, v)) :
              <<t, l, v>> \in { q \in shorter \X (1..MaxThreshold) \X (0..MaxValue) :
                                 /\ Len(q[1]) = n - 1
                                 /\ (q[1] # <<>> => q[1][Len(q[1])].level <= q[2]) } }

InitTable ==
  /\ \E table \in tables(MaxEntries), level \in 0..(MaxThreshold + 1) :
       /\ lookup = [table |-> table, value |-> None]
       /\ game = ops_game(<<new_dagger>>, level)
  /\ objects = <<new_player>>
  /\ phase = "place_objects"
  /\ player_action = "None"
  /\ ai_id = 0
  /\ turns = 0
  /\ savegame = None
  /\ evaluated = <<>>

\* from_dungeon_level(table, level)
FromDungeonLevel ==
  /\ lookup.value = None
  /\ lookup' = [lookup EXCEPT !.value = Some(from_dungeon_level(lookup.table, game.dungeon_level))]
  /\ UNCHANGED <<objects, game, phase, player_action, ai_id, turns, savegame, evaluated>>

NextTable ==
  \/ FromDungeonLevel

SpecTable == InitTable /\ [][NextTable]_vars

\* ------------------------------------------------------------------------
\* place_objects on rooms and levels drawn from bounded sets: the room is
\* carved into a map of walls, the player stands where new_game creates it
\* or on a tile of the room.
\* ------------------------------------------------------------------------
PlaceMaxSize == 4
MaxPlaceLevel == 4

place_rooms ==
  { Rect_new(0, 0, w, MAP_HEIGHT - 1) : w \in ROOM_MIN_SIZE..Min(PlaceMaxSize, MAP_WIDTH - 1) }

InitPlace ==
  /\ \E room \in place_rooms, level \in 1..MaxPlaceLevel, p \in {<<0, 0>>, <<1, 1>>} :
       /\ objects = <<set_pos(new_player, p[1], p[2])>>
       /\ game = [ops_game(<<new_dagger>>, level) EXCEPT
                    !.map = create_room(room, [t \in Tiles |-> Tile_wall]),
                    !.rooms = <<room>>,
                    !.accepted = <<TRUE>>]
  /\ phase = "place_objects"
  /\ player_action = "None"
  /\ ai_id = 0
  /\ turns = 0
  /\ savegame = None
  /\ evaluated = <<>>
  /\ lookup = no_lookup

\* place_objects(new_room, &map, objects, level)
PlaceObjects ==
  /\ phase = "place_objects"
  /\ objects' \in place_objects(game.rooms[1], game.map, objects, game.dungeon_level)
  /\ phase' = "placed"
  /\ UNCHANGED <<game, player_action, ai_id, turns, savegame, evaluated, lookup>>

NextPlace ==
  \/ PlaceObjects

SpecPlace == InitPlace /\ [][NextPlace]_vars

\* ------------------------------------------------------------------------
\* Properties
\* ------------------------------------------------------------------------
Slots == {"LeftHand", "RightHand", "Head"}

equipped_in(slot, inventory) ==
  {i \in 1..Len(inventory) :
     /\ IsSome(inventory[i].equipment)
     /\ inventory[i].equipment[1].equipped
     /\ inventory[i].equipment[1].slot = slot}

\* C1: in every reachable state the player's inventory holds at most one
\* item with equipped = true for each slot.
C1_OneEquippedPerSlot ==
  \A slot \in Slots : Cardinality(equipped_in(slot, game.inventory)) <= 1

\* C2: in every reachable state the store is not empty, its first entity is
\* the player, and the player is nowhere else in it.
C2_PlayerFirst ==
  /\ Len(objects) >= 1
  /\ objects[PLAYER].uid = new_player.uid
  /\ objects[PLAYER].name = "player"
  /\ \A i \in 2..Len(objects) : objects[i].uid # new_player.uid

\* C2, the case: on level 2, after a descent, the healing potion of the level
\* has been picked up (swap_remove) and the dagger dropped (push).
C2_Witness ==
  /\ game.dungeon_level = 2
  /\ \E i \in 2..Len(objects) : objects[i].name = "dagger"
  /\ \E i \in 1..Len(game.inventory) : game.inventory[i].name = "healing potion"

attack_entries(log) ==
  {k \in 1..Len(log) : log[k][1] \in {"attacks", "attacks but it has no effect"}}

\* C3: for every two entities with a Fighter in a reachable state, attack
\* computes damage = power(attacker) - defense(defender); when damage > 0 the
\* defender's hp goes down by exactly damage (the Fighter is then cleared if
\* that kills a monster) and the one attack entry logged is "attacks ... for
\* damage"; when damage <= 0 neither entity changes and the one entry logged
\* is "attacks ... but it has no effect".
C3_AttackDamage ==
  \A a, d \in 1..Len(objects) :
    (a # d /\ IsSome(objects[a].fighter) /\ IsSome(objects[d].fighter)) =>
      LET r == attack(objects[a], objects[d], cleared)
          damage == power(objects[a], game) - defense(objects[d], game)
          hp == objects[d].fighter[1].hp
      IN /\ Cardinality(attack_entries(r.game.log)) = 1
         /\ IF damage > 0
            THEN /\ r.game.log[1] = <<"attacks", objects[a].name, objects[d].name, damage>>
                 /\ IF IsSome(r.target.fighter)
                    THEN r.target.fighter[1].hp = hp - damage
                    ELSE hp - damage <= 0
            ELSE /\ r.game.log = << <<"attacks but it has no effect",
                                      objects[a].name, objects[d].name>> >>
                 /\ r.target = objects[d]
                 /\ r.self = objects[a]

\* C3, the case: the player, hit before (hp below 100), has just attacked a
\* troll without effect.
C3_Witness ==
  /\ game.log = << <<"attacks but it has no effect", "player", "troll">> >>
  /\ objects[PLAYER].fighter[1].hp < 100

\* C4: in every reachable state every entity's on_death callback has run at
\* most once; it has run exactly when the entity's hp has come to 0 or below,
\* and the entity is then not alive.
C4_DeathOnce ==
  \A i \in 1..Len(objects) :
    LET o == objects[i]
    IN /\ o.deaths \in {0, 1}
       /\ o.deaths = 1 => ~o.alive
       /\ IsSome(o.fighter) =>
            /\ o.deaths = 1 <=> o.fighter[1].hp <= 0
            /\ o.alive <=> o.fighter[1].hp > 0

\* C4, the case: the player has died in this Ai round and a monster next to
\* it is still to be evaluated.
C4_Witness ==
  /\ phase = "ai"
  /\ objects[PLAYER].deaths = 1
  /\ dist2(objects[ai_id], objects[PLAYER].x, objects[PLAYER].y) < 4

\* an entity that has died
dead(o) == ~o.alive /\ (IsSome(o.fighter) \/ o.deaths > 0)

\* C5: in every step, a dead player stays dead, and a dead monster has no
\* Fighter, no Ai and does not block, and is in the store unchanged after the
\* step unless the step leaves the level.
C5_DeathIrreversible ==
  [][\A i \in 1..Len(objects) :
       dead(objects[i]) =>
         IF i = PLAYER
         THEN ~objects'[PLAYER].alive
         ELSE /\ IsNone(objects[i].fighter)
              /\ IsNone(objects[i].ai)
              /\ ~objects[i].blocks
              /\ game'.dungeon_level = game.dungeon_level =>
                   \E j \in 1..Len(objects') : objects'[j] = objects[i]]_vars

\* C5, the case: the player, a level gained by the kill, stands on the
\* remains of a monster that died elsewhere, after a turn taken.
C5_Witness ==
  /\ \E i \in 2..Len(objects) :
       /\ objects[i].deaths = 1
       /\ pos(objects[i]) = pos(objects[PLAYER])
  /\ player_action = "TookTurn"
  /\ objects[PLAYER].level = 2
  /\ phase = "handle_keys"

\* C6: in every level_up step, when the player's xp is at least
\* LEVEL_UP_BASE + level * LEVEL_UP_FACTOR the player afterwards has xp
\* lowered by exactly that threshold, level raised by 1 and exactly one of
\* +20 base_max_hp and hp, +1 base_power, +1 base_defense, and nothing else
\* in the store changes; when xp is below the threshold nothing changes.
C6_LevelUp ==
  [][phase = "level_up" =>
       LET p == objects[PLAYER]
           threshold == LEVEL_UP_BASE + p.level * LEVEL_UP_FACTOR
           paid == [p EXCEPT !.level = @ + 1, !.fighter[1].xp = @ - threshold]
       IN IF p.fighter[1].xp >= threshold
          THEN /\ objects'[PLAYER] \in
                    { [paid EXCEPT !.fighter[1].base_max_hp = @ + 20,
                                   !.fighter[1].hp = @ + 20],
                      [paid EXCEPT !.fighter[1].base_power = @ + 1],
                      [paid EXCEPT !.fighter[1].base_defense = @ + 1] }
               /\ objects' = [objects EXCEPT ![PLAYER] = objects'[PLAYER]]
               /\ [game' EXCEPT !.log = <<>>] = cleared
          ELSE objects' = objects /\ game' = cleared]_vars

\* C6, the case: the player has paid 350 of 400 xp for level 2.
C6_Witness ==
  /\ objects[PLAYER].level = 2
  /\ objects[PLAYER].fighter[1].xp = 50
  /\ game.log = << <<"Your battle skills grow stronger!", 2>> >>

\* C7, as amended: a monster put into Confused{previous, 3} stays Confused
\* through four evaluations, the counter reading 3, 2, 1, 0 and -1 between
\* them, and the fifth evaluation returns it to previous.
C7_RevertsOnFifth ==
  [][\A i \in 1..Len(objects) :
       LET o == objects[i]
       IN (IsSome(o.ai) /\ o.evals \in 0..(CONFUSE_NUM_TURNS + 1)) =>
            /\ o.ai[1].kind = "Confused"
            /\ o.ai[1].num_turns = CONFUSE_NUM_TURNS - o.evals
            /\ (phase = "ai" /\ ai_id = i /\ o.evals = CONFUSE_NUM_TURNS + 1) =>
                 /\ objects'[i].ai = Some(o.ai[1].previous_ai)
                 /\ objects'[i].evals = CONFUSE_NUM_TURNS + 2]_vars

\* C7, the case: the fifth evaluation has made the monster Basic again.
C7_Witness ==
  \E i \in 2..Len(objects) :
    /\ objects[i].evals = CONFUSE_NUM_TURNS + 2
    /\ objects[i].ai = Some(Ai_Basic)
    /\ game.log = << <<"is no longer confused!", objects[i].name>> >>

\* C7, as first stated: a monster put into Confused{previous, 3} is Confused
\* before its fourth evaluation and back in previous after it.
C7_RevertsOnFourth ==
  \A i \in 1..Len(objects) :
    LET o == objects[i]
    IN (IsSome(o.ai) /\ o.evals >= 0) =>
         IF o.evals < CONFUSE_NUM_TURNS + 1
         THEN o.ai[1].kind = "Confused"
         ELSE o.ai[1].kind # "Confused"

\* C8: for every Heal item of the inventory of a living player, use_item
\* with hp below max_hp sets hp to min(hp + HEAL_AMOUNT, max_hp) and removes
\* the item; with hp at max_hp it changes neither hp nor inventory.
C8_HealItem ==
  \A i \in 1..Len(game.inventory) :
    (objects[PLAYER].alive /\ game.inventory[i].item = Some("Heal")) =>
      LET r == use_item(i, objects, cleared, [click |-> None, fov |-> {}])
          hp == objects[PLAYER].fighter[1].hp
          limit == max_hp(objects[PLAYER], game)
      IN IF hp < limit
         THEN /\ r.objects[PLAYER].fighter[1].hp = Min(hp + HEAL_AMOUNT, limit)
              /\ r.game.inventory = remove(game.inventory, i)
         ELSE /\ r.objects[PLAYER].fighter[1].hp = hp
              /\ r.game.inventory = game.inventory

\* the latest step was a descent
descended ==
  \E k \in 1..Len(game.log) :
    game.log[k] = <<"After a rare moment of peace, you descend deeper...">>

\* C9: every descent leaves the player with hp = min(hp + max_hp / 2, max_hp).
C9_DescendHeals ==
  [][descended' =>
       LET hp == objects[PLAYER].fighter[1].hp
           limit == max_hp(objects[PLAYER], game)
       IN objects'[PLAYER].fighter[1].hp = Min(hp + limit \div 2, limit)]_vars

\* C10: dungeon_level and the map change only in a descent, which only
\* happens in handle_keys with the player on the stairs; a descent raises
\* dungeon_level by exactly 1, keeps no entity of the old store but the
\* player (every other entity is one generated for the new level), and
\* leaves the player's level, its Fighter apart from hp, and the inventory
\* as they were; with the player off the stairs the '<' key leaves the
\* store and the game as they were.
C10_DescendFrame ==
  [][/\ (descended' \/ game'.dungeon_level # game.dungeon_level \/ game'.map # game.map) =>
          /\ phase = "handle_keys"
          /\ player_on_stairs(objects)
          /\ descended'
     /\ descended' =>
          /\ game'.dungeon_level = game.dungeon_level + 1
          /\ \A j \in 2..Len(objects') :
               /\ objects'[j].uid[1] = game'.dungeon_level
               /\ \A i \in 2..Len(objects) : objects'[j].uid # objects[i].uid
          /\ objects'[PLAYER].level = objects[PLAYER].level
          /\ [objects'[PLAYER].fighter[1] EXCEPT !.hp = objects[PLAYER].fighter[1].hp]
               = objects[PLAYER].fighter[1]
          /\ game'.inventory = game.inventory
     /\ ~player_on_stairs(objects) =>
          descend(objects, cleared) = { [objects |-> objects, game |-> cleared] }]_vars

\* C10, the case: a descent to level 2 made after the dagger was dropped on
\* level 1: the inventory is empty and the dagger is gone with the level.
C10_Witness ==
  /\ descended
  /\ game.dungeon_level = 2
  /\ game.inventory = <<>>
  /\ \A i \in 1..Len(objects) : objects[i].name # "dagger"

\* the closed bounding boxes of two rooms share a tile or an edge
overlap(a, b) ==
  \E x \in a.x1..a.x2, y \in a.y1..a.y2 :
    x \in b.x1..b.x2 /\ y \in b.y1..b.y2

\* C11: in the dungeon make_map produced for the current level no two
\* accepted rooms have bounding boxes that overlap, the boxes taken closed
\* as Rect::intersects_with takes them.
C11_RoomsDisjoint ==
  \A i, j \in 1..Len(game.rooms) :
    (i < j /\ game.accepted[i] /\ game.accepted[j]) =>
      ~overlap(game.rooms[i], game.rooms[j])

\* C11, the case: a level on which both candidates were accepted.
C11_Witness ==
  /\ Len(game.rooms) = MAX_ROOMS
  /\ \A i \in 1..Len(game.rooms) : game.accepted[i]

\* the store indices of the stairs
stairs_ids == {i \in 1..Len(objects) : objects[i].name = "stairs"}

\* the latest step made the current level: a session that starts on a
\* level nobody has moved on, or a descent
level_made == turns = 0 \/ descended

\* the index in game.rooms of the last candidate that was accepted
last_accepted ==
  CHOOSE i \in 1..Len(game.rooms) :
    game.accepted[i] /\ \A j \in (i + 1)..Len(game.rooms) : ~game.accepted[j]

\* tile p is one of those create_room carves for room r
inside(p, r) ==
  /\ p[1] \in (r.x1 + 1)..(r.x2 - 1)
  /\ p[2] \in (r.y1 + 1)..(r.y2 - 1)

\* C12: on a level make_map has just produced the player's tile and the
\* stairs' tile are carved (blocked = false), and the stairs are inside the
\* last accepted room.
C12_SpawnAndStairsCarved ==
  level_made =>
    /\ ~game.map[pos(objects[PLAYER])].blocked
    /\ \A i \in stairs_ids :
         /\ ~game.map[pos(objects[i])].blocked
         /\ inside(pos(objects[i]), game.rooms[last_accepted])

\* two different tiles that touch, diagonals included (the eight moves)
adjacent(s, t) ==
  /\ s # t
  /\ s[1] - t[1] \in -1..1
  /\ s[2] - t[2] \in -1..1

\* the carved tiles that a path of adjacent carved tiles joins to `seen`
RECURSIVE reach(_, _)
reach(seen, map) ==
  LET more == {t \in DOMAIN map :
                 /\ ~map[t].blocked
                 /\ t \notin seen
                 /\ \E u \in seen : adjacent(u, t)}
  IN IF more = {} THEN seen ELSE reach(seen \cup more, map)

\* C13: on a level make_map has just produced the stairs' tile is joined
\* to the player's tile by a path of adjacent carved tiles, and so is the
\* centre of every accepted room.
C13_StairsReachable ==
  level_made =>
    LET joined == reach({pos(objects[PLAYER])}, game.map)
    IN /\ \A i \in stairs_ids : pos(objects[i]) \in joined
       /\ \A k \in 1..Len(game.rooms) :
            game.accepted[k] => center(game.rooms[k]) \in joined

\* inventory entry b is an unequipped piece of equipment and entry a an
\* equipped one for the same slot
occupied_by(b, a) ==
  LET B == game.inventory[b]
      A == game.inventory[a]
  IN /\ a # b
     /\ IsSome(B.equipment) /\ ~B.equipment[1].equipped
     /\ IsSome(A.equipment) /\ A.equipment[1].equipped
     /\ A.equipment[1].slot = B.equipment[1].slot

\* C14: using an unequipped equipment item B whose slot is occupied by an
\* equipped inventory item A leaves B equipped and A not equipped.
C14_ToggleSwaps ==
  \A b, a \in 1..Len(game.inventory) :
    occupied_by(b, a) =>
      LET r == use_item(b, objects, cleared, [click |-> None, fov |-> {}])
      IN /\ r.game.inventory[b].equipment[1].equipped
         /\ ~r.game.inventory[a].equipment[1].equipped

\* the hp an entity shows, 0 standing for a Fighter that was taken away
hp_left(o) == IF IsSome(o.fighter) THEN o.fighter[1].hp ELSE 0

\* o2 is what FIREBALL_DAMAGE applied once makes of o: hp down by exactly
\* the damage, or, for a monster that it kills, the Fighter gone and the
\* callback run once
burned(o, o2) ==
  LET hp == o.fighter[1].hp - FIREBALL_DAMAGE
  IN /\ IF IsSome(o2.fighter) THEN o2.fighter[1].hp = hp ELSE hp <= 0
     /\ o2.deaths = o.deaths + (IF hp <= 0 THEN 1 ELSE 0)
     /\ pos(o2) = pos(o)

\* o2 is o, but for the xp a player gains
same_but_xp(o, o2) ==
  IF IsSome(o.fighter) /\ IsSome(o2.fighter)
  THEN [o2 EXCEPT !.fighter[1].xp = o.fighter[1].xp] = o
  ELSE o2 = o

fireball_ids == {i \in 1..Len(game.inventory) : game.inventory[i].item = Some("Fireball")}

\* C15: a fireball centred on any tile t applies FIREBALL_DAMAGE exactly
\* once to every entity with a Fighter within distance FIREBALL_RADIUS of
\* t, the player included, and leaves every other entity as it was; one
\* "gets burned" entry is logged per entity hit, none for an entity
\* without a Fighter.
C15_Fireball ==
  \A i \in fireball_ids, t \in Tiles :
    LET r == cast_fireball(i, objects, cleared, [click |-> Some(t), fov |-> {}])
        hit == {id \in 1..Len(objects) :
                  /\ IsSome(objects[id].fighter)
                  /\ dist2(objects[id], t[1], t[2]) <= FIREBALL_RADIUS * FIREBALL_RADIUS}
        entries == {k \in 1..Len(r.game.log) : r.game.log[k][1] = "gets burned"}
    IN /\ r.result = "UsedUp"
       /\ Len(r.objects) = Len(objects)
       /\ \A id \in 1..Len(objects) :
            IF id \in hit
            THEN burned(objects[id], r.objects[id])
            ELSE same_but_xp(objects[id], r.objects[id])
       /\ Cardinality(entries) = Cardinality(hit)
       /\ \A k \in entries :
            \E id \in hit : r.game.log[k] = <<"gets burned", objects[id].name, FIREBALL_DAMAGE>>

\* C15, the case: a fireball has burned the player and the orc, the orc is
\* dead, and the troll, out of its radius, and the potion are untouched.
C15_Witness ==
  /\ \E k \in 1..Len(game.log) : game.log[k] = <<"gets burned", "player", FIREBALL_DAMAGE>>
  /\ \E k \in 1..Len(game.log) : game.log[k] = <<"gets burned", "orc", FIREBALL_DAMAGE>>
  /\ objects[PLAYER].fighter[1].hp = 100 - FIREBALL_DAMAGE
  /\ objects[2].name = "remains of orc"
  /\ objects[3].fighter[1].hp = 30
  /\ IsNone(objects[4].fighter)

lightning_ids == {i \in 1..Len(game.inventory) : game.inventory[i].item = Some("Lightning")}

\* the monsters of the store
monster_ids == {id \in 2..Len(objects) : IsSome(objects[id].ai) /\ IsSome(objects[id].fighter)}

\* C16: a use of lightning damages a monster only if the monster is in
\* view and its distance from the player is at most LIGHTNING_RANGE, and no
\* other such monster is nearer; with no monster in view within
\* LIGHTNING_RANGE nothing in the store changes and the scroll stays in the
\* inventory.
C16_LightningRange ==
  \A i \in lightning_ids, fov \in SUBSET {pos(objects[id]) : id \in monster_ids} :
    LET r == use_item(i, objects, cleared, [click |-> None, fov |-> fov])
        d2(id) == dist2(objects[PLAYER], objects[id].x, objects[id].y)
        valid == {id \in monster_ids :
                    /\ pos(objects[id]) \in fov
                    /\ d2(id) <= LIGHTNING_RANGE * LIGHTNING_RANGE}
    IN /\ \A id \in 2..Len(objects) :
            r.objects[id] # objects[id] =>
              /\ id \in valid
              /\ \A j \in valid : d2(id) <= d2(j)
       /\ valid = {} =>
            /\ r.objects = objects
            /\ r.game.inventory = game.inventory

\* C17: the inventory never holds more than 26 entries, and pick_item_up
\* with 26 entries in the inventory leaves the inventory and the store as
\* they were and logs one message.
C17_InventoryCap ==
  /\ Len(game.inventory) <= 26
  /\ Len(game.inventory) = 26 =>
       \A id \in 2..Len(objects) :
         IsSome(objects[id].item) =>
           LET r == pick_item_up(id, objects, cleared)
           IN /\ r.objects = objects
              /\ r.game.inventory = game.inventory
              /\ Len(r.game.log) = 1
              /\ [r.game EXCEPT !.log = <<>>] = cleared

\* C17, the case: 'g' was pressed over an item with 26 entries in the
\* inventory; the item is still on the player's tile.
C17_Witness ==
  /\ Len(game.inventory) = 26
  /\ Len(game.log) = 1
  /\ game.log[1][1] = "Your inventory is full"
  /\ \E id \in 2..Len(objects) :
       IsSome(objects[id].item) /\ pos(objects[id]) = pos(objects[PLAYER])

\* the item entities of a store or of an inventory, by identity
item_uids(seq) == {seq[i].uid : i \in {k \in 1..Len(seq) : IsSome(seq[k].item)}}

\* the number of item entities in a store or an inventory
item_count(seq) == Cardinality({k \in 1..Len(seq) : IsSome(seq[k].item)})

\* the entity of identity u in a store or an inventory
entity(seq, u) == seq[CHOOSE k \in 1..Len(seq) : seq[k].uid = u]

\* b is the entity a, moved or equipped at most
same_item(a, b) ==
  /\ [a EXCEPT !.x = b.x, !.y = b.y, !.equipment = b.equipment] = b
  /\ IsSome(a.equipment) =>
       [a.equipment[1] EXCEPT !.equipped = b.equipment[1].equipped] = b.equipment[1]

\* C18: in a step that stays on the level no item is duplicated or made:
\* an item that enters the inventory is the one entity that leaves the
\* store, an item that enters the store is the one entity that leaves the
\* inventory and lies on the player's tile, and the number of item
\* entities in store plus inventory goes down only in a use_item that
\* returns UsedUp, by exactly one.
C18_ItemsTransferred ==
  [][game'.dungeon_level = game.dungeon_level =>
       LET store == item_uids(objects)
           pack == item_uids(game.inventory)
           store2 == item_uids(objects')
           pack2 == item_uids(game'.inventory)
           before == item_count(objects) + item_count(game.inventory)
           after == item_count(objects') + item_count(game'.inventory)
       IN /\ Cardinality(store2 \cup pack2) = after
          /\ store2 \cup pack2 \subseteq store \cup pack
          /\ after \in {before - 1, before}
          /\ after = before - 1 =>
               /\ phase = "handle_keys"
               /\ \E i \in 1..Len(game.inventory) :
                    \E input \in use_inputs(i, objects, game) :
                      /\ on_use(game.inventory[i].item[1], i, objects, cleared, input).result
                           = "UsedUp"
                      /\ use_item(i, objects, cleared, input)
                           = [objects |-> objects', game |-> game']
          /\ \A u \in pack2 \ pack :
               /\ pack2 \ pack = {u}
               /\ store \ store2 = {u}
               /\ Len(objects') = Len(objects) - 1
               /\ Len(game'.inventory) = Len(game.inventory) + 1
               /\ same_item(entity(objects, u), entity(game'.inventory, u))
               /\ pos(entity(game'.inventory, u)) = pos(entity(objects, u))
          /\ \A u \in store2 \ store :
               /\ store2 \ store = {u}
               /\ pack \ pack2 = {u}
               /\ Len(objects') = Len(objects) + 1
               /\ Len(game'.inventory) = Len(game.inventory) - 1
               /\ same_item(entity(game.inventory, u), entity(objects', u))
               /\ entity(game.inventory, u).equipment = entity(objects', u).equipment
               /\ pos(entity(objects', u)) = pos(objects'[PLAYER])]_vars

\* C18, the case: on level 2 an item made on level 1 lies in the store: it
\* was picked up there, carried down and dropped here.
C18_Witness ==
  /\ game.dungeon_level = 2
  /\ \E i \in 2..Len(objects) :
       /\ IsSome(objects[i].item)
       /\ objects[i].uid[1] = 1
       /\ pos(objects[i]) = pos(objects[PLAYER])

\* what a rejected action must leave alone: every entity's position, hp
\* and Ai, the inventory, the map and dungeon_level
world(objs, g) ==
  [entities |-> [i \in 1..Len(objs) |->
                   [pos |-> pos(objs[i]),
                    hp |-> IF IsSome(objs[i].fighter) THEN Some(objs[i].fighter[1].hp) ELSE None,
                    ai |-> objs[i].ai]],
   inventory |-> g.inventory,
   map |-> g.map,
   dungeon_level |-> g.dungeon_level]

\* the log of a step in which handle_keys rejected the action: a use that
\* returned Cancelled, or a pick-up with the inventory full
rejected(log) ==
  \E k \in 1..Len(log) : log[k][1] \in {"Cancelled", "Your inventory is full"}

\* C19: a rejected action leaves the world as it was over the iteration of
\* the turn loop: the handle_keys step that rejects it changes nothing but
\* the log, and neither does the step that follows it in the iteration.
C19_RejectedNoChange ==
  [][/\ (phase = "handle_keys" /\ rejected(game'.log)) =>
          world(objects', game') = world(objects, game)
     /\ (phase = "ai" /\ rejected(game.log)) =>
          world(objects', game') = world(objects, game)]_vars

\* the store indices of the entities that have an Ai
ai_ids == {i \in 1..Len(objects) : IsSome(objects[i].ai)}

\* the members of a set of indices in increasing order
ascending(S) ==
  [k \in 1..Cardinality(S) |-> CHOOSE i \in S : Cardinality({j \in S : j < i}) = k - 1]

\* C20: in every iteration of the turn loop the Ai round is entered only
\* after TookTurn with the player alive; it evaluates the entities that
\* have an Ai one by one in increasing store order, each exactly once, so
\* that at its end all of them have been evaluated; after DidntTakeTurn or
\* Exit, or with the player dead after the action, none is evaluated.
C20_AiRound ==
  /\ phase \in {"handle_keys", "exit"} => evaluated = <<>>
  /\ phase = "ai" =>
       /\ player_action = "TookTurn"
       /\ ai_id \in ai_ids
       /\ evaluated = ascending({i \in ai_ids : i < ai_id})
       /\ evaluated = <<>> => objects[PLAYER].alive
  /\ phase = "level_up" =>
       evaluated = IF /\ turns > 0
                      /\ player_action = "TookTurn"
                      /\ objects[PLAYER].alive \/ evaluated # <<>>
                   THEN ascending(ai_ids)
                   ELSE <<>>

\* C20, the case: a round has ended in which two monsters were evaluated
\* in store order, the player having died at the hands of the first.
C20_Witness ==
  /\ phase = "level_up"
  /\ evaluated = <<2, 3>>
  /\ ~objects[PLAYER].alive
  /\ player_action = "TookTurn"

\* the sum of the xp values of the entities of objs with index in S
RECURSIVE xp_sum(_, _)
xp_sum(S, objs) ==
  IF S = {} THEN 0
  ELSE LET i == CHOOSE j \in S : TRUE
       IN objs[i].fighter[1].xp + xp_sum(S \ {i}, objs)

\* the store indices of the monsters whose on_death callback the step runs
killed_by_step ==
  {i \in 2..Len(objects) :
     /\ IsSome(objects[i].fighter)
     /\ \E j \in 1..Len(objects') :
          /\ objects'[j].uid = objects[i].uid
          /\ objects'[j].deaths = objects[i].deaths + 1}

\* C21: in every step but level_up the player's xp goes up by exactly the
\* sum of the xp values of the monsters that die in the step, each counted
\* once, and by nothing else (the player's own death adds nothing);
\* monsters die only in the player's action, by melee, lightning or
\* fireball.
C21_XpCredit ==
  [][phase # "level_up" =>
       /\ objects'[PLAYER].fighter[1].xp
            = objects[PLAYER].fighter[1].xp + xp_sum(killed_by_step, objects)
       /\ killed_by_step # {} => phase = "handle_keys"]_vars

\* C21, the case: a fireball has killed the two orcs and the player, who
\* had 35 xp: 70 xp are credited, the player's own 35 are not.
C21_Witness ==
  /\ \E k \in 1..Len(game.log) : game.log[k][1] = "The fireball explodes"
  /\ ~objects[PLAYER].alive
  /\ \A i \in 2..3 : objects[i].name = "remains of orc"
  /\ objects[PLAYER].fighter[1].xp = 35 + 35 + 35

is_confused(o) == IsSome(o.ai) /\ o.ai[1].kind = "Confused"

\* C22: an Ai evaluation of a Basic monster leaves it Basic, and an entity
\* that was not Confused before a step is Confused after it only when the
\* step is a use of the Confuse item in handle_keys, the entity is not the
\* player and it had a Fighter.
C22_TwoStateAi ==
  [][/\ (phase = "ai" /\ objects[ai_id].ai = Some(Ai_Basic)) =>
          objects'[ai_id].ai = Some(Ai_Basic)
     /\ \A i \in 1..Len(objects), j \in 1..Len(objects') :
          (/\ objects'[j].uid = objects[i].uid
           /\ is_confused(objects'[j])
           /\ ~is_confused(objects[i])) =>
            /\ phase = "handle_keys"
            /\ \E k \in 1..Len(game'.log) : game'.log[k][1] = "The eyes look vacant"
            /\ \E n \in 1..Len(game.inventory) :
                 /\ game.inventory[n].item = Some("Confuse")
                 /\ game'.inventory = remove(game.inventory, n)
            /\ i # PLAYER
            /\ IsSome(objects[i].fighter)
     /\ \A j \in 1..Len(objects') :
          (is_confused(objects'[j]) /\ \A i \in 1..Len(objects) : objects[i].uid # objects'[j].uid)
            => FALSE]_vars

\* C22, the case: a Basic orc has just been made Confused by the scroll.
C22_Witness ==
  /\ phase = "ai"
  /\ objects[ai_id].name = "orc"
  /\ objects[ai_id].ai = Some(Ai_Confused(Ai_Basic, CONFUSE_NUM_TURNS))
  /\ \E k \in 1..Len(game.log) : game.log[k] = <<"The eyes look vacant", "orc">>

\* the game with the carved tiles explored, as the renderer leaves them
explored(g) ==
  [g EXCEPT !.map = [t \in DOMAIN g.map |-> [g.map[t] EXCEPT !.explored = ~g.map[t].blocked]]]

\* C23: load_game applied to what save_game writes returns an equal state:
\* the store with the same entities in the same order (the player first),
\* every tile with its explored flag, the log, the inventory with its
\* equipped flags, and dungeon_level.  So it is for the file Escape has
\* written, for the same session with its carved tiles explored, and for
\* the states in which the log holds the entries of the player's action.
C23_SaveLoad ==
  /\ phase = "exit" =>
       /\ IsSome(savegame)
       /\ load_game(savegame[1]) = [objects |-> objects, game |-> game]
       /\ load_game(savegame[1]).objects[PLAYER].name = "player"
       /\ load_game(save_game(objects, explored(game)))
            = [objects |-> objects, game |-> explored(game)]
  /\ (phase = "ai" /\ evaluated = <<>>) =>
       load_game(save_game(objects, game)) = [objects |-> objects, game |-> game]

\* C23, the case: a session saved with a twice-confused orc in the store
\* and an equipped dagger in the inventory.
C23_Witness ==
  /\ phase = "exit"
  /\ IsSome(savegame)
  /\ \E i \in 2..Len(objects) :
       is_confused(objects[i]) /\ objects[i].ai[1].previous_ai.kind = "Confused"
  /\ \E k \in 1..Len(game.inventory) :
       /\ IsSome(game.inventory[k].equipment)
       /\ game.inventory[k].equipment[1].equipped
\* C24: from_dungeon_level(table, level) returns the value of the entry with
\* the highest threshold that is <= level, and 0 when the level is below
\* every threshold, for every table with ascending thresholds and every
\* level.
C24_FromDungeonLevel ==
  IsSome(lookup.value) =>
    LET table == lookup.table
        level == game.dungeon_level
        below == {i \in 1..Len(table) : table[i].level <= level}
    IN IF below = {} THEN lookup.value[1] = 0
       ELSE \E i \in below :
              /\ \A j \in below : table[j].level <= table[i].level
              /\ lookup.value[1] = table[i].value

\* a level between the second and the third threshold of a table of three
\* values: the second value is returned
C24_Witness ==
  /\ IsSome(lookup.value)
  /\ Len(lookup.table) = 3
  /\ lookup.table[1].level < lookup.table[2].level
  /\ lookup.table[2].level < game.dungeon_level
  /\ game.dungeon_level < lookup.table[3].level
  /\ lookup.table[1].value = 2 /\ lookup.table[2].value = 1 /\ lookup.table[3].value = 0
  /\ lookup.value = Some(1)

\* the bonuses of one kind of the equipped items of an inventory, entry by
\* entry
RECURSIVE equipped_bonus(_, _)
equipped_bonus(inventory, field) ==
  IF inventory = <<>> THEN 0
  ELSE (IF IsSome(Head(inventory).equipment) /\ Head(inventory).equipment[1].equipped
        THEN Head(inventory).equipment[1][field] ELSE 0)
       + equipped_bonus(Tail(inventory), field)

base(o, field) == IF IsSome(o.fighter) THEN o.fighter[1][field] ELSE 0

\* C25: the effective max-hp, power and defense of the player are the base
\* value plus the bonuses of exactly the equipped items of the inventory
\* (items in the world store add nothing), and those of every other entity
\* are the base value whatever the inventory holds.
C25_EffectiveStats ==
  \A i \in 1..Len(objects) :
    LET o == objects[i]
        extra(field) == IF i = PLAYER THEN equipped_bonus(game.inventory, field) ELSE 0
    IN /\ max_hp(o, game) = base(o, "base_max_hp") + extra("max_hp_bonus")
       /\ power(o, game) = base(o, "base_power") + extra("power_bonus")
       /\ defense(o, game) = base(o, "base_defense") + extra("defense_bonus")

\* a sword equipped and a sword not equipped in the inventory, the dagger
\* dropped and still marked equipped in the world store
C25_Witness ==
  /\ \E k \in 1..Len(game.inventory) :
       /\ IsSome(game.inventory[k].equipment)
       /\ game.inventory[k].equipment[1].equipped
       /\ game.inventory[k].equipment[1].power_bonus > 0
  /\ \E k \in 1..Len(game.inventory) :
       /\ IsSome(game.inventory[k].equipment)
       /\ ~game.inventory[k].equipment[1].equipped
       /\ game.inventory[k].equipment[1].power_bonus > 0
  /\ \E i \in 2..Len(objects) :
       /\ IsSome(objects[i].equipment)
       /\ objects[i].equipment[1].equipped
       /\ objects[i].equipment[1].power_bonus > 0
  /\ power(objects[PLAYER], game) > base(objects[PLAYER], "base_power")

\* the entities that block: the player and the living monsters
blocking == {i \in 1..Len(objects) : objects[i].blocks}

\* C26: in every reachable state, the one right after make_map included, no
\* two blocking entities stand on the same tile and no blocking entity
\* stands on a blocked tile.
C26_NoSharedTile ==
  /\ \A i \in blocking, j \in blocking : i # j => pos(objects[i]) # pos(objects[j])
  /\ \A i \in blocking : ~game.map[pos(objects[i])].blocked

\* the Ai loop is about to evaluate a monster whose Ai is Basic
basic_next ==
  /\ phase = "ai"
  /\ IsSome(objects[ai_id].ai)
  /\ objects[ai_id].ai[1].kind = "Basic"

\* what the evaluation of that monster leaves when the field of view
\* answers in_fov
basic_eval(in_fov) ==
  ai_take_turn(ai_id, cleared, objects, [in_fov |-> in_fov, dx |-> 0, dy |-> 0])

\* the entries of a log that record an attack
attacks_in(log) ==
  {k \in 1..Len(log) : log[k][1] \in {"attacks", "attacks but it has no effect"}}

\* the store but for the bookkeeping of the evaluated monster
but_evals(objs) == [objs EXCEPT ![ai_id].evals = 0]

\* C27: the evaluation of a Basic monster out of view changes nothing; in
\* view and at distance >= 2 it moves the monster by at most one tile per
\* axis and attacks nobody; in view and closer than 2 it attacks the player
\* exactly when the player's hp > 0, so that a player with hp <= 0 is not
\* attacked again, also by the later monsters of the same round.
C27_BasicAi ==
  basic_next =>
    LET m == objects[ai_id]
        p == objects[PLAYER]
        far == dist2(m, p.x, p.y) >= 4
        hidden == basic_eval(FALSE)
        seen == basic_eval(TRUE)
        moved == [objects EXCEPT ![ai_id].x = seen.objects[ai_id].x,
                                 ![ai_id].y = seen.objects[ai_id].y]
    IN /\ hidden.game = cleared
       /\ but_evals(hidden.objects) = but_evals(objects)
       /\ far =>
            /\ seen.game = cleared
            /\ but_evals(seen.objects) = but_evals(moved)
            /\ seen.objects[ai_id].x - m.x \in -1..1
            /\ seen.objects[ai_id].y - m.y \in -1..1
       /\ ~far =>
            /\ pos(seen.objects[ai_id]) = pos(m)
            /\ (attacks_in(seen.game.log) # {}) <=> (p.fighter[1].hp > 0)
            /\ (attacks_in(seen.game.log) # {}) =>
                 (seen.game.log[1][2] = m.name /\ seen.game.log[1][3] = "player")
       /\ (p.fighter[1].hp <= 0) => (seen.objects[PLAYER] = p /\ seen.game = cleared)

\* the player was killed earlier in this round and the next monster, Basic
\* and next to the player, is about to be evaluated
C27_Witness ==
  /\ basic_next
  /\ evaluated # <<>>
  /\ objects[PLAYER].fighter[1].hp <= 0
  /\ ~objects[PLAYER].alive
  /\ dist2(objects[ai_id], objects[PLAYER].x, objects[PLAYER].y) < 4
  /\ basic_eval(TRUE).objects[PLAYER] = objects[PLAYER]

\* the Ai loop is about to evaluate a monster whose Ai is Confused
confused_next ==
  /\ phase = "ai"
  /\ IsSome(objects[ai_id].ai)
  /\ objects[ai_id].ai[1].kind = "Confused"

\* tile t is a wall, or an entity that blocks stands on it
taken_tile(t) ==
  \/ game.map[t].blocked
  \/ \E k \in 1..Len(objects) : objects[k].blocks /\ pos(objects[k]) = t

\* C28: the evaluation of a monster in Confused{previous, remaining} with
\* remaining >= 0 moves it by the step drawn, at most one tile per axis, or
\* not at all when the destination is blocked, attacks nobody, lowers
\* remaining by exactly 1 and keeps previous; with remaining < 0 it leaves
\* the position, appends one 'no longer confused' entry and sets the Ai to
\* exactly previous.
C28_ConfusedAi ==
  confused_next =>
    \A dx \in -1..1, dy \in -1..1 :
      LET m == objects[ai_id]
          ai == m.ai[1]
          r == ai_take_turn(ai_id, cleared, objects, [in_fov |-> TRUE, dx |-> dx, dy |-> dy])
          dest == <<m.x + dx, m.y + dy>>
          there == IF taken_tile(dest) THEN pos(m) ELSE dest
      IN IF ai.num_turns >= 0
         THEN /\ r.game = cleared
              /\ pos(r.objects[ai_id]) = there
              /\ r.objects[ai_id].ai = Some(Ai_Confused(ai.previous_ai, ai.num_turns - 1))
              /\ but_evals(r.objects) =
                   but_evals([objects EXCEPT ![ai_id].x = there[1],
                                             ![ai_id].y = there[2],
                                             ![ai_id].ai[1].num_turns = ai.num_turns - 1])
         ELSE /\ r.game = add(cleared, <<"is no longer confused!", m.name>>)
              /\ r.objects[ai_id].ai = Some(ai.previous_ai)
              /\ but_evals(r.objects) = but_evals([objects EXCEPT ![ai_id].ai = Some(ai.previous_ai)])

\* a Confused monster next to the living player with its counter below
\* zero: the evaluation makes it Basic again
C28_Witness ==
  /\ confused_next
  /\ objects[ai_id].ai[1].num_turns < 0
  /\ dist2(objects[ai_id], objects[PLAYER].x, objects[PLAYER].y) < 4
  /\ objects[PLAYER].fighter[1].hp > 0
  /\ ai_take_turn(ai_id, cleared, objects, [in_fov |-> TRUE, dx |-> 1, dy |-> 0]).objects[ai_id].ai
       = Some(Ai_Basic)

\* the depth of an Ai value: 0 for Basic, one more than that of previous_ai
\* for Confused
RECURSIVE ai_depth(_)
ai_depth(ai) == IF ai.kind = "Basic" THEN 0 ELSE 1 + ai_depth(ai.previous_ai)

\* C29: in every reachable state the nesting depth of every monster's Ai is
\* at most 1: the previous state inside a Confused value is Basic, also
\* after the Confuse item was used on a monster that is already Confused.
C29_AiDepthOne ==
  \A i \in 1..Len(objects) : IsSome(objects[i].ai) => ai_depth(objects[i].ai[1]) <= 1

\* the lowest level on which place_objects gives an item kind a weight
\* above 0
first_level(kind) ==
  CASE kind = "Heal" -> 1
    [] kind = "Confuse" -> 2
    [] kind = "Lightning" -> 4
    [] kind = "Sword" -> 4
    [] kind = "Fireball" -> 6
    [] kind = "Shield" -> 8

\* C30: for every depth and room, place_objects adds at most
\* from_dungeon_level(monster table, depth) monsters and at most
\* from_dungeon_level(item table, depth) items, and no type whose weight is
\* 0 at that depth: no troll below depth 3, nothing but healing potions at
\* depth 1.
C30_PlaceObjects ==
  phase = "placed" =>
    LET level == game.dungeon_level
        monsters == {i \in 2..Len(objects) : IsSome(objects[i].ai)}
        items == {i \in 2..Len(objects) : IsSome(objects[i].item)}
    IN /\ Cardinality(monsters) <=
            from_dungeon_level(<<Transition(1, 2), Transition(4, 3), Transition(6, 5)>>, level)
       /\ Cardinality(items) <=
            from_dungeon_level(<<Transition(1, 1), Transition(4, 2)>>, level)
       /\ monsters \cup items = 2..Len(objects)
       /\ \A i \in monsters :
            /\ objects[i].name \in {"orc", "troll"}
            /\ objects[i].name = "troll" => level >= 3
       /\ \A i \in items :
            /\ level >= first_level(objects[i].item[1])
            /\ level = 1 => objects[i].name = "healing potion"

\* depth 3, a room of three tiles: two monsters, one of them a troll, and a
\* scroll of confusion
C30_Witness ==
  /\ phase = "placed"
  /\ game.dungeon_level = 3
  /\ Len(objects) = 4
  /\ objects[2].name = "orc"
  /\ objects[3].name = "troll"
  /\ objects[4].name = "scroll of confusion"

\* the steps of the eight movement keys
directions == {d \in (-1..1) \X (-1..1) : d # <<0, 0>>}

\* the target player_move_or_attack finds for a step
melee_target(d) == target_id(objects[PLAYER].x + d[1], objects[PLAYER].y + d[2], objects)

\* C31: every call of mut_two is made with two distinct indices: the
\* player's melee target is never the player itself, and the monster whose
\* Ai is evaluated, which attacks the player, is never the player.
C31_DistinctPair ==
  /\ (phase = "handle_keys" /\ objects[PLAYER].alive) =>
       \A d \in directions : melee_target(d) # Some(PLAYER)
  /\ phase = "ai" => ai_id # PLAYER
  /\ \A k \in 1..Len(evaluated) : evaluated[k] # PLAYER

\* the player is about to press a key with a monster on its own tile and
\* another monster one step away: a step towards the second finds it as the
\* target
C31_Witness ==
  /\ phase = "handle_keys"
  /\ objects[PLAYER].alive
  /\ \E i \in 2..Len(objects) : IsSome(objects[i].fighter) /\ pos(objects[i]) = pos(objects[PLAYER])
  /\ \E d \in directions : IsSome(melee_target(d)) /\ melee_target(d)[1] > PLAYER

\* C32: in every reachable state every entity that has an Ai has a Fighter
\* and is alive, and the player has no Ai; no item of the inventory has one
\* either.
C32_AiOnlyOnLivingMonsters ==
  /\ \A i \in 1..Len(objects) :
       IsSome(objects[i].ai) =>
         /\ IsSome(objects[i].fighter)
         /\ objects[i].alive
         /\ i # PLAYER
  /\ \A k \in 1..Len(game.inventory) : IsNone(game.inventory[k].ai)

\* the remains of a monster, without Ai and Fighter, beside a living
\* monster that has both
C32_Witness ==
  /\ \E i \in 2..Len(objects) :
       /\ objects[i].deaths = 1
       /\ ~objects[i].alive
       /\ IsNone(objects[i].ai)
       /\ IsNone(objects[i].fighter)
  /\ \E i \in 2..Len(objects) :
       /\ IsSome(objects[i].ai)
       /\ IsSome(objects[i].fighter)
       /\ objects[i].alive

\* the tiles of the outer border of the map
border == {t \in Tiles : t[1] \in {0, MAP_WIDTH - 1} \/ t[2] \in {0, MAP_HEIGHT - 1}}

\* the entities move_by is called for
movers == {i \in 1..Len(objects) : i = PLAYER \/ IsSome(objects[i].ai)}

\* C33: every tile of the outer border stays blocked after make_map,
\* whatever rooms were drawn, so every entity stays inside the map and
\* every tile is_blocked is asked about, one step from an entity that
\* moves, is a tile of the map.
C33_BorderBlocked ==
  /\ \A t \in border : game.map[t].blocked
  /\ \A i \in 1..Len(objects) : pos(objects[i]) \in Tiles
  /\ \A i \in movers : pos(objects[i]) \notin border
  /\ \A i \in movers : \A d \in (-1..1) \X (-1..1) :
       <<objects[i].x + d[1], objects[i].y + d[2]>> \in Tiles

\* two rooms joined by a tunnel, and a monster that has walked out of its
\* room into the tunnel
C33_Witness ==
  /\ Len(game.rooms) = 2
  /\ game.accepted = <<TRUE, TRUE>>
  /\ \E i \in 2..Len(objects) :
       /\ IsSome(objects[i].ai)
       /\ \A k \in 1..Len(game.rooms) : ~inside(pos(objects[i]), game.rooms[k])
       /\ ~game.map[pos(objects[i])].blocked

\* the player's hp is at most its effective max-hp and its xp is not negative
stats_in_range(objs, g) ==
  /\ objs[PLAYER].fighter[1].hp <= max_hp(objs[PLAYER], g)
  /\ objs[PLAYER].fighter[1].xp >= 0

\* C34: in every reachable state the player's hp is at most its effective
\* max-hp and its xp is >= 0, before and after every step, and no step
\* lowers the player's level.
C34_PlayerStats ==
  [][/\ stats_in_range(objects, game)
     /\ stats_in_range(objects', game')
     /\ objects'[PLAYER].level >= objects[PLAYER].level]_vars

\* the unhurt player has killed, reached level 2 and chosen Constitution:
\* hp and max-hp are both 120, 50 xp are left
C34_Witness ==
  /\ objects[PLAYER].level = 2
  /\ objects[PLAYER].fighter[1].base_max_hp = 120
  /\ objects[PLAYER].fighter[1].hp = max_hp(objects[PLAYER], game)
  /\ objects[PLAYER].fighter[1].xp = 50

\* the positions of the entities of a store, in store order
positions(objs) == [i \in 1..Len(objs) |-> pos(objs[i])]

\* what a step leaves alone once the player is dead: positions, inventory,
\* map and dungeon_level stay, no Ai is evaluated and no Ai round starts; a
\* key is answered with DidntTakeTurn and changes no entity, or with Exit,
\* which writes the file from the state as it is and ends the session
still ==
  /\ positions(objects') = positions(objects)
  /\ game'.inventory = game.inventory
  /\ game'.map = game.map
  /\ game'.dungeon_level = game.dungeon_level
  /\ evaluated' \in {evaluated, <<>>}
  /\ phase' # "ai"
  /\ phase = "handle_keys" =>
       /\ objects' = objects
       /\ game'.log = <<>>
       /\ player_action' \in {"DidntTakeTurn", "Exit"}
       /\ player_action' = "Exit" =>
            /\ phase' = "exit"
            /\ savegame' = Some(save_game(objects, game'))
       /\ player_action' = "DidntTakeTurn" => phase' = "level_up" /\ savegame' = savegame

====
